---- MODULE Spec2Model ----
(***************************************************************************)
(* A model of src/archivematicaselenium.py: the table scraper              *)
(* (parse_tasks_table and its row handlers), the navigation retry          *)
(* (navigate_to_*_directory_and_click), the stale-retry decorator          *)
(* (recurse_on_stale), the job poll (get_job_uuid) and the removal loop    *)
(* (remove_all_transfers).  Strings are sequences of one-character         *)
(* strings, Python dicts are functions whose domain is the set of keys.    *)
(***************************************************************************)
EXTENDS Integers, Sequences, FiniteSets, TLC

VARIABLES
    \* the remote tasks table: a sequence of pages, each a sequence of <tr>
    pages,
    \* parse_tasks_table: its arguments, locals and position
    tasks_url, table_dict, row_dict, row_i, pt_pc,
    \* the browser sessions: self.driver, self.all_drivers, the drivers whose
    \* window is open, each driver's current_url, the logged-in drivers
    driver, all_drivers, open_drivers, current_url, session,
    \* the exception that left parse_tasks_table, "none" if none
    exc,
    \* navigate_to_{transfer,aip}_directory_and_click: which of the two is
    \* called, its argument, its position, the index of the segment at hand,
    \* the accumulated prefix (xtrail of the transfer browser, self.cwd of the
    \* AIP browser), the two retry counters, the exception in flight, the
    \* messages printed
    nav_variant, path, nav_pc, seg_i, xtrail, cwd,
    click_transfer_directory_tries, click_aip_directory_tries, nav_exc, printed,
    \* history: the top-level calls made, the attempts of the current call,
    \* the segment at which the last failed attempt failed, the re-clicks of
    \* click_folder_old_browser on the segment at hand
    nav_calls, nav_attempts, nav_failed_seg, inner_retries,
    \* recurse_on_stale around an operation func: the wrapper's position, the
    \* arguments of the call, the arguments and the progress of the invocation
    \* of func at hand, the result or the exception of the call
    ros_pc, ros_args, func_args, func_pos, ros_result, ros_exc,
    \* history: the invocations of func made, and how each one ended
    ros_invocations, ros_outcomes,
    \* the dashboard page: the number of times it was rendered again, and the
    \* clicks it received
    dom_version, clicks,
    \* the micro-service group of the unit: whether it is rendered, and its
    \* job rows
    group_present, jobs,
    \* get_job_uuid: its position, the group element it holds, the result or
    \* the exception of the call
    gj_pc, gj_elem, gj_result, gj_exc,
    \* history: the top-level calls of get_job_uuid and what they returned
    gj_polls, gj_results,
    \* the list of units (div.sip), the confirmation dialog, whether a click
    \* on "remove" asked for it, the unit whose removal was confirmed
    units, dialog, dialog_requested, pending,
    \* remove_all_transfers: its position, the unit element it holds, the
    \* exception that left it
    rm_pc, top_transfer_elem, rm_exc,
    \* history: the removals confirmed
    rm_confirmed,
    \* the rows (div.sip) of the tab a unit is started in, the counter
    \* wait_for_transfer_to_appear_waits of the object
    sips, wait_for_transfer_to_appear_waits,
    \* start_transfer followed by a lookup by name: the position, the name,
    \* what start_transfer returned, the exception that left it, what the
    \* lookup returned, the units approved
    st_pc, st_name, st_result, st_exc, lk_result, approved,
    \* history: whether the source directory was added, whether "Start
    \* transfer" was clicked, the scans of the rows made by the top-level
    \* call of wait_for_transfer_to_appear at hand
    st_dir_added, st_started, st_scans,
    \* wait_for_existence: the element the selector denotes, the position of
    \* the wait, its detector, its timeout, the polls made, the exception
    \* that left it
    elem_state, we_pc, we_kind, we_timeout, we_elapsed, we_exc,
    \* a row handler applied to the text of a cell: the text, the handler,
    \* its outcome, the position
    cell_text, parse_kind, parse_out, parse_pc,
    \* a navigation of a workflow operation: the position, the operation,
    \* the URL it asks for, whether the login form was submitted
    nv_pc, nv_op, nv_url, nv_logged_in,
    \* the windows of each driver, the window each driver is switched to, the
    \* driver in which a click asked for a new window (0 if none)
    window_handles, current_window, window_requested,
    \* get_mets: the position, the two handles it reads, the page source it
    \* read, the exception that left it
    gm_pc, gm_original, gm_new, mets, gm_exc,
    \* tearDown: the position, the windows or drivers still to close, the
    \* exception that left it
    td_pc, td_todo, td_exc,
    \* the waits for a job (wait_for_microservice_visibility, then
    \* get_job_uuid): the frames on the interpreter's stack, the position,
    \* the result, the exception
    frames, wj_pc, wj_result, wj_exc,
    \* the micro-service group of the unit: whether its content region is
    \* displayed
    group_expanded,
    \* expose_job: the position, the group element it holds, what
    \* is_displayed() answered, the exception that left it
    ex_pc, ex_elem, is_visible, ex_exc,
    \* history: the calls of expose_job, the clicks of the call at hand on
    \* the header of the group
    ex_calls, ex_clicks,
    \* the file browser of the transfer tab: the folders that are open
    tree_expanded,
    \* _navigate_to_transfer_directory_and_click: the position, the path, the
    \* index of the segment at hand, xtrail, the exception that left it
    tr_pc, tr_path, tr_i, tr_xtrail, tr_exc,
    \* history: the calls made, the clicks of the call at hand, the folders
    \* added to the transfer
    tr_calls, tr_clicks, tr_added,
    \* navigate(url), statement by statement: the position, the URL asked
    \* for
    ng_pc, ng_url,
    \* history: the calls made, the driver.get and the login of the call at
    \* hand, whether its first driver.get was answered by another URL
    ng_calls, ng_gets, ng_logins, ng_redirected,
    \* one turn of the loop over the rows of parse_tasks_table: the position,
    \* the row, row_dict before the turn, row_type, the handler called and
    \* what it returned
    cl_pc, cl_row, cl_row_dict, cl_type, cl_handler, cl_out

scrape_vars == <<pages, tasks_url, table_dict, row_dict, row_i, pt_pc, exc>>
driver_vars == <<driver, all_drivers, open_drivers, current_url, session>>
nav_vars == <<nav_variant, path, nav_pc, seg_i, xtrail, cwd,
              click_transfer_directory_tries, click_aip_directory_tries,
              nav_exc, printed, nav_calls, nav_attempts, nav_failed_seg,
              inner_retries>>

stale_vars == <<ros_pc, ros_args, func_args, func_pos, ros_result, ros_exc,
                ros_invocations, ros_outcomes>>
dom_vars == <<dom_version, clicks>>
job_vars == <<group_present, jobs, gj_pc, gj_elem, gj_result, gj_exc, gj_polls,
              gj_results>>
rm_vars == <<units, dialog, dialog_requested, pending, rm_pc,
             top_transfer_elem, rm_exc, rm_confirmed>>

start_vars == <<sips, wait_for_transfer_to_appear_waits, st_pc, st_name,
                st_result, st_exc, lk_result, approved, st_dir_added,
                st_started, st_scans>>
wait_vars == <<elem_state, we_pc, we_kind, we_timeout, we_elapsed, we_exc>>
parse_vars == <<cell_text, parse_kind, parse_out, parse_pc>>
login_vars == <<nv_pc, nv_op, nv_url, nv_logged_in>>
win_vars == <<window_handles, current_window, window_requested, gm_pc,
              gm_original, gm_new, mets, gm_exc, td_pc, td_todo, td_exc>>
poll_vars == <<frames, wj_pc, wj_result, wj_exc>>
expose_vars == <<group_expanded, ex_pc, ex_elem, is_visible, ex_exc, ex_calls,
                 ex_clicks>>
tree_vars == <<tree_expanded, tr_pc, tr_path, tr_i, tr_xtrail, tr_exc,
               tr_calls, tr_clicks, tr_added>>
navigate_vars == <<ng_pc, ng_url, ng_calls, ng_gets, ng_logins, ng_redirected>>
classify_vars == <<cl_pc, cl_row, cl_row_dict, cl_type, cl_handler, cl_out>>
more_vars == <<expose_vars, tree_vars, navigate_vars, classify_vars>>
rest_vars == <<start_vars, wait_vars, parse_vars, login_vars, win_vars,
               poll_vars, more_vars>>

vars == <<scrape_vars, driver_vars, nav_vars, stale_vars, dom_vars, job_vars,
          rm_vars, rest_vars>>

\* what the actions of each part leave alone
scrape_others == <<nav_vars, stale_vars, dom_vars, job_vars, rm_vars,
                   rest_vars>>
nav_others == <<scrape_vars, driver_vars, stale_vars, dom_vars, job_vars,
                rm_vars, rest_vars>>
stale_others == <<scrape_vars, driver_vars, nav_vars, dom_vars, job_vars,
                  rm_vars, rest_vars>>
job_others == <<scrape_vars, nav_vars, stale_vars, rm_vars, rest_vars>>
rm_others == <<scrape_vars, nav_vars, stale_vars, job_vars, rest_vars>>
old_parts == <<scrape_vars, nav_vars, stale_vars, job_vars, rm_vars>>
start_others == <<old_parts, dom_vars, wait_vars, parse_vars, login_vars,
                  win_vars, poll_vars,
                 more_vars>>
wait_others == <<old_parts, driver_vars, dom_vars, start_vars, parse_vars,
                 login_vars, win_vars, poll_vars,
                 more_vars>>
parse_others == <<old_parts, driver_vars, dom_vars, start_vars, wait_vars,
                  login_vars, win_vars, poll_vars,
                 more_vars>>
login_others == <<old_parts, dom_vars, start_vars, wait_vars, parse_vars,
                  win_vars, poll_vars,
                 more_vars>>
win_others == <<old_parts, dom_vars, start_vars, wait_vars, parse_vars,
                login_vars, poll_vars,
                 more_vars>>
expose_others == <<scrape_vars, nav_vars, stale_vars, rm_vars, start_vars,
                   wait_vars, parse_vars, login_vars, win_vars, poll_vars,
                   tree_vars, navigate_vars, classify_vars>>
tree_others == <<old_parts, driver_vars, dom_vars, start_vars, wait_vars,
                 parse_vars, login_vars, win_vars, poll_vars, expose_vars,
                 navigate_vars, classify_vars>>
navigate_others == <<old_parts, dom_vars, start_vars, wait_vars, parse_vars,
                     login_vars, win_vars, poll_vars, expose_vars, tree_vars,
                     classify_vars>>
classify_others == <<old_parts, driver_vars, dom_vars, start_vars, wait_vars,
                     parse_vars, login_vars, win_vars, poll_vars, expose_vars,
                     tree_vars, navigate_vars>>
poll_others == <<scrape_vars, nav_vars, stale_vars, rm_vars, driver_vars,
                 start_vars, wait_vars, parse_vars, login_vars, win_vars,
                 more_vars>>

(***************************************************************************)
(* Bounds of the model.                                                    *)
(***************************************************************************)
MaxRows == 3
MaxPages == 2
MaxNavCalls == 1
MaxInnerRetries == 1
FuncSteps == 2
MaxInvocations == 4
MaxRerenders == 1
MaxJobs == 2
MaxPolls == 2
MaxUnits == 2
MaxTimeout == 2
MaxArgs == 2
MaxDrivers == 3
MaxWindows == 3
MaxExposeCalls == 2
MaxTreeCalls == 3
MaxNavigations == 4

(***************************************************************************)
(* Python str methods, on sequences of characters.                         *)
(***************************************************************************)
Whitespace == {" ", "\n", "\t"}

RECURSIVE lstrip(_)
lstrip(s) == IF s # <<>> /\ Head(s) \in Whitespace THEN lstrip(Tail(s)) ELSE s

RECURSIVE rstrip(_)
rstrip(s) ==
    IF s # <<>> /\ s[Len(s)] \in Whitespace
    THEN rstrip(SubSeq(s, 1, Len(s) - 1)) ELSE s

strip(s) == rstrip(lstrip(s))

startswith(s, p) == Len(s) >= Len(p) /\ SubSeq(s, 1, Len(p)) = p

endswith(s, p) ==
    Len(s) >= Len(p) /\ SubSeq(s, Len(s) - Len(p) + 1, Len(s)) = p

\* index of the first occurrence of sep in s, 0 if there is none
find(s, sep) ==
    LET hits == {j \in 1..(Len(s) - Len(sep) + 1) :
                    SubSeq(s, j, j + Len(sep) - 1) = sep}
    IN  IF hits = {} THEN 0
        ELSE CHOOSE j \in hits : \A k \in hits : j <= k

\* s.split(sep): always at least one part
RECURSIVE split(_, _)
split(s, sep) ==
    LET j == find(s, sep)
    IN  IF j = 0 THEN <<s>>
        ELSE <<SubSeq(s, 1, j - 1)>>
                 \o split(SubSeq(s, j + Len(sep), Len(s)), sep)

\* s.split(): the maximal runs of non-whitespace characters
RECURSIVE split_ws(_)
split_ws(s) ==
    LET t == lstrip(s)
        ws == {j \in 1..Len(t) : t[j] \in Whitespace}
        e == IF ws = {} THEN Len(t) + 1
             ELSE CHOOSE j \in ws : \A k \in ws : j <= k
    IN  IF t = <<>> THEN <<>>
        ELSE <<SubSeq(t, 1, e - 1)>> \o split_ws(SubSeq(t, e, Len(t)))

\* sep.join(parts)
RECURSIVE join(_, _)
join(sep, parts) ==
    IF parts = <<>> THEN <<>>
    ELSE IF Len(parts) = 1 THEN parts[1]
    ELSE parts[1] \o sep \o join(sep, Tail(parts))

Upper == <<"A", "B", "C", "D", "E", "F", "G", "H", "I", "J", "K", "L", "M",
           "N", "O", "P", "Q", "R", "S", "T", "U", "V", "W", "X", "Y", "Z">>
Lower == <<"a", "b", "c", "d", "e", "f", "g", "h", "i", "j", "k", "l", "m",
           "n", "o", "p", "q", "r", "s", "t", "u", "v", "w", "x", "y", "z">>

lower(s) ==
    [j \in 1..Len(s) |->
        IF \E k \in 1..26 : Upper[k] = s[j]
        THEN Lower[CHOOSE k \in 1..26 : Upper[k] = s[j]]
        ELSE s[j]]

\* s.replace(a, b) for one-character a and b
replace(s, a, b) == [j \in 1..Len(s) |-> IF s[j] = a THEN b ELSE s[j]]

(***************************************************************************)
(* Python dicts and the outcome of a call: a value or an exception.        *)
(***************************************************************************)
EmptyDict == <<>>

DictSet(d, k, v) == [x \in (DOMAIN d) \cup {k} |-> IF x = k THEN v ELSE d[x]]

Ok(v) == [exc |-> "none", val |-> v]

Raise(e) == [exc |-> e, val |-> <<>>]

k_file_uuid == <<"f", "i", "l", "e", "_", "u", "u", "i", "d">>
k_command == <<"c", "o", "m", "m", "a", "n", "d">>
k_arguments == <<"a", "r", "g", "u", "m", "e", "n", "t", "s">>
k_stdout == <<"s", "t", "d", "o", "u", "t">>
k_stderr == <<"s", "t", "d", "e", "r", "r">>

(***************************************************************************)
(* The rows of a tasks table.  A <tr> has a class attribute, may hold a    *)
(* td.stdout or a td.stderror cell, and has the text of the cell its       *)
(* handler reads (the first <td>, or the <pre>).                           *)
(***************************************************************************)
Uuids == {<<"1">>, <<"2">>, <<"3">>}

HeaderText(u) ==
    <<"(", "F", "i", "l", "e", " ", "U", "U", "I", "D", ":", " ">> \o u
      \o <<")", "\n", "(", "F", "i", "l", "e", " ", "N", "a", "m", "e", ":",
           " ", "f", ")">>

HeaderRow(u) ==
    [class |-> <<"o", "d", "d">>, stdout |-> FALSE, stderror |-> FALSE,
     text |-> HeaderText(u)]

CommandRow ==
    [class |-> <<>>, stdout |-> FALSE, stderror |-> FALSE,
     text |-> <<"C", "o", "m", "m", "a", "n", "d", ":", " ", "c", "o", "n",
                "v", "e", "r", "t", " ", "\"", "a", " ", "b", "\"", " ",
                "\"", "c", "\"">>]

StdoutRow ==
    [class |-> <<>>, stdout |-> TRUE, stderror |-> FALSE,
     text |-> <<" ", "o", "k", "\n">>]

StderrRow ==
    [class |-> <<" ">>, stdout |-> FALSE, stderror |-> TRUE,
     text |-> <<"e", "r", "r", " ">>]

RowSet == {HeaderRow(u) : u \in Uuids} \cup {CommandRow, StdoutRow, StderrRow}

(***************************************************************************)
(* The row handlers.                                                       *)
(***************************************************************************)
\* a classification that looks for td.stderror before td.stdout
get_tasks_row_type_stderr_first(row_elem) ==
    IF strip(row_elem.class) # <<>> THEN "header"
    ELSE IF row_elem.stderror THEN "stderr"
    ELSE IF row_elem.stdout THEN "stdout"
    ELSE "command"

get_tasks_row_type(row_elem) ==
    IF strip(row_elem.class) # <<>> THEN "header"
    ELSE IF row_elem.stdout THEN "stdout"
    ELSE IF row_elem.stderror THEN "stderr"
    ELSE "command"

RECURSIVE header_lines(_, _)
header_lines(lines, d) ==
    IF lines = <<>> THEN Ok(d)
    ELSE LET l0 == strip(Head(lines))
             l1 == IF startswith(l0, <<"(">>) THEN Tail(l0) ELSE l0
             l2 == IF endswith(l1, <<")">>)
                   THEN SubSeq(l1, 1, Len(l1) - 1) ELSE l1
             parts == split(l2, <<":">>)
         IN  IF Len(parts) # 2 THEN Raise("ValueError")
             ELSE header_lines(Tail(lines),
                      DictSet(d, replace(lower(strip(parts[1])), " ", "_"),
                              strip(parts[2])))

\* a handler that takes the whole cell for one line
process_task_header_row_one_line(row_elem, d) ==
    header_lines(<<strip(row_elem.text)>>, d)

process_task_header_row(row_elem, d) ==
    header_lines(split(strip(row_elem.text), <<"\n">>), d)

process_task_command_row(row_elem, d) ==
    LET parts == split(strip(row_elem.text), <<":">>)
        toks == split_ws(parts[2])
        args0 == join(<<" ">>, Tail(toks))
        args1 == IF args0[1] = "\"" THEN Tail(args0) ELSE args0
        args2 == IF args1[Len(args1)] = "\""
                 THEN SubSeq(args1, 1, Len(args1) - 1) ELSE args1
    IN  IF Len(parts) < 2 THEN Raise("IndexError")
        ELSE IF toks = <<>> THEN Raise("ValueError")
        ELSE IF args0 = <<>> THEN Raise("IndexError")
        ELSE IF args1 = <<>> THEN Raise("IndexError")
        ELSE Ok(DictSet(DictSet(d, k_command, toks[1]),
                        k_arguments, split(args2, <<"\"", " ", "\"">>)))

process_task_stdout_row(row_elem, d) ==
    Ok(DictSet(d, k_stdout, strip(row_elem.text)))

process_task_stderr_row(row_elem, d) ==
    Ok(DictSet(d, k_stderr, strip(row_elem.text)))

(***************************************************************************)
(* The browser.  A page of the dashboard is served only to a logged-in     *)
(* session; any other request is redirected to the login page.  login()    *)
(* submits the login form, which leaves the browser on the home page.      *)
(***************************************************************************)
BlankUrl == <<"about:blank">>
LoginUrl == <<"administration/accounts/login/">>
HomeUrl == <<"">>
get_transfer_url == <<"transfer/">>
get_ingest_url == <<"ingest/">>
get_tasks_url(job_page) == <<"tasks/", job_page>>

\* driver.get(url) in a session set ses: the URL the browser of d lands on
driver_get(ses, d, url) == IF d \in ses THEN url ELSE LoginUrl

\* self.login(): the sessions after the form was submitted by driver d
login(ses, d) == ses \cup {d}

\* the handler the if / elif / else of the loop over the rows calls for a
\* row type
row_handler(row_type) ==
    CASE row_type = "header" -> "process_task_header_row"
      [] row_type = "command" -> "process_task_command_row"
      [] row_type = "stdout" -> "process_task_stdout_row"
      [] OTHER -> "process_task_stderr_row"

\* a loop whose header row goes on with the record at hand
row_handler_result_keep(row_type, row_elem, rd) ==
    CASE row_handler(row_type) = "process_task_header_row" ->
            process_task_header_row(row_elem, rd)
      [] row_handler(row_type) = "process_task_command_row" ->
            process_task_command_row(row_elem, rd)
      [] row_handler(row_type) = "process_task_stdout_row" ->
            process_task_stdout_row(row_elem, rd)
      [] OTHER -> process_task_stderr_row(row_elem, rd)

\* row_dict after the call of that handler
row_handler_result(row_type, row_elem, rd) ==
    CASE row_handler(row_type) = "process_task_header_row" ->
            process_task_header_row(row_elem, EmptyDict)
      [] row_handler(row_type) = "process_task_command_row" ->
            process_task_command_row(row_elem, rd)
      [] row_handler(row_type) = "process_task_stdout_row" ->
            process_task_stdout_row(row_elem, rd)
      [] OTHER -> process_task_stderr_row(row_elem, rd)

\* a scraper that never finds the "Next Page" control
next_page_link_none(p) == 0

\* the href of the last "Next Page" a.btn of page p, 0 if there is none
next_page_link(p) == IF p < Len(pages) THEN p + 1 ELSE 0

(***************************************************************************)
(* parse_tasks_table.                                                      *)
(***************************************************************************)
\* table_dict['tasks'][row_dict['file_uuid']] = row_dict
flush(tasks, rd) ==
    IF k_file_uuid \in DOMAIN rd
    THEN Ok(DictSet(tasks, rd[k_file_uuid], rd))
    ELSE Raise("KeyError")

\* a final flush that was forgotten
final_flush_forgotten(tasks, rd) == Ok(tasks)

\* the flush after the loop over the rows
final_flush(tasks, rd) == flush(tasks, rd)

\* the flush at a header row, only of a record that is not empty
header_flush(tasks, rd) == IF DOMAIN rd # {} THEN flush(tasks, rd) ELSE Ok(tasks)

\* a browser that is left open when its page was read
driver_close_never(open, d) == open

\* self.driver.close() on the one window of the browser d
driver_close(open, d) == open \ {d}

pt_raise(e) ==
    /\ pt_pc' = "raised"
    /\ exc' = e

\* a new browser is opened, logged in if it is not at tasks_url, and sent to
\* tasks_url; the loop over the rows of its table starts with an empty record
parse_tasks_table_open ==
    /\ pt_pc = "call"
    /\ LET d == Len(all_drivers) + 1
           ses == IF BlankUrl # get_tasks_url(tasks_url)
                  THEN login(session, d) ELSE session
       IN  /\ driver' = d
           /\ all_drivers' = Append(all_drivers, d)
           /\ open_drivers' = open_drivers \cup {d}
           /\ session' = ses
           /\ current_url' =
                  [x \in 1..d |->
                      IF x = d THEN driver_get(ses, d, get_tasks_url(tasks_url))
                      ELSE current_url[x]]
    /\ row_dict' = EmptyDict
    /\ row_i' = 1
    /\ pt_pc' = "rows"
    /\ UNCHANGED <<pages, tasks_url, table_dict, exc>>
    /\ UNCHANGED scrape_others

\* one iteration of the loop over the rows
parse_tasks_table_row ==
    /\ pt_pc = "rows"
    /\ row_i <= Len(pages[tasks_url])
    /\ LET row_elem == pages[tasks_url][row_i]
           row_type == get_tasks_row_type(row_elem)
           flushed == IF row_type = "header"
                      THEN header_flush(table_dict.tasks, row_dict)
                      ELSE Ok(table_dict.tasks)
           parsed == row_handler_result(row_type, row_elem, row_dict)
       IN  IF flushed.exc # "none"
           THEN /\ pt_raise(flushed.exc)
                /\ UNCHANGED <<table_dict, row_dict, row_i>>
           ELSE IF parsed.exc # "none"
           THEN /\ pt_raise(parsed.exc)
                /\ table_dict' = [table_dict EXCEPT !.tasks = flushed.val]
                /\ UNCHANGED <<row_dict, row_i>>
           ELSE /\ table_dict' = [table_dict EXCEPT !.tasks = flushed.val]
                /\ row_dict' = parsed.val
                /\ row_i' = row_i + 1
                /\ UNCHANGED <<pt_pc, exc>>
    /\ UNCHANGED <<pages, tasks_url>>
    /\ UNCHANGED driver_vars
    /\ UNCHANGED scrape_others

\* after the last row: the final flush, the search for "Next Page", the close
\* of the browser, and the recursion into the next page or the return
parse_tasks_table_end ==
    /\ pt_pc = "rows"
    /\ row_i > Len(pages[tasks_url])
    /\ LET flushed == final_flush(table_dict.tasks, row_dict)
           next_tasks_url == next_page_link(tasks_url)
       IN  IF flushed.exc # "none"
           THEN /\ pt_raise(flushed.exc)
                /\ UNCHANGED <<table_dict, tasks_url, open_drivers>>
           ELSE /\ table_dict' = [table_dict EXCEPT !.tasks = flushed.val]
                /\ open_drivers' = driver_close(open_drivers, driver)
                /\ IF next_tasks_url # 0
                   THEN /\ tasks_url' = next_tasks_url
                        /\ pt_pc' = "call"
                   ELSE /\ pt_pc' = "done"
                        /\ UNCHANGED tasks_url
                /\ UNCHANGED exc
    /\ UNCHANGED <<pages, row_dict, row_i>>
    /\ UNCHANGED <<driver, all_drivers, current_url, session>>
    /\ UNCHANGED scrape_others

(***************************************************************************)
(* The state of the navigation before any call.                            *)
(***************************************************************************)
NoExc == [type |-> "none", msg |-> <<>>]

NavIdle ==
    /\ nav_variant = "transfer"
    /\ path = <<>>
    /\ nav_pc = "idle"
    /\ seg_i = 0
    /\ xtrail = <<>>
    /\ cwd = <<>>
    /\ click_transfer_directory_tries = 0
    /\ click_aip_directory_tries = 0
    /\ nav_exc = NoExc
    /\ printed = <<>>
    /\ nav_calls = 0
    /\ nav_attempts = 0
    /\ nav_failed_seg = 0
    /\ inner_retries = 0

(***************************************************************************)
(* The state of the other parts before any call.                           *)
(***************************************************************************)
None == <<"None">>

NoElem == [id |-> 0, ver |-> 0]

ScrapeIdle ==
    /\ pages = <<>>
    /\ tasks_url = 0
    /\ table_dict = [job_output |-> "", tasks |-> EmptyDict]
    /\ row_dict = EmptyDict
    /\ row_i = 0
    /\ pt_pc = "idle"
    /\ exc = "none"

StaleIdle ==
    /\ ros_pc = "idle"
    /\ ros_args = <<>>
    /\ func_args = <<>>
    /\ func_pos = 0
    /\ ros_result = None
    /\ ros_exc = "none"
    /\ ros_invocations = 0
    /\ ros_outcomes = <<>>

DomInit ==
    /\ dom_version = 0
    /\ clicks = <<>>

JobIdle ==
    /\ group_present = FALSE
    /\ jobs = <<>>
    /\ gj_pc = "idle"
    /\ gj_elem = NoElem
    /\ gj_result = <<None, None>>
    /\ gj_exc = "none"
    /\ gj_polls = 0
    /\ gj_results = <<>>

RmIdle ==
    /\ units = <<>>
    /\ dialog = "absent"
    /\ dialog_requested = FALSE
    /\ pending = 0
    /\ rm_pc = "idle"
    /\ top_transfer_elem = NoElem
    /\ rm_exc = "none"
    /\ rm_confirmed = 0

StartIdle ==
    /\ sips = <<>>
    /\ wait_for_transfer_to_appear_waits = 0
    /\ st_pc = "idle"
    /\ st_name = <<>>
    /\ st_result = None
    /\ st_exc = "none"
    /\ lk_result = None
    /\ approved = {}
    /\ st_dir_added = FALSE
    /\ st_started = FALSE
    /\ st_scans = 0

WaitIdle ==
    /\ elem_state = "absent"
    /\ we_pc = "idle"
    /\ we_kind = "presence"
    /\ we_timeout = 0
    /\ we_elapsed = 0
    /\ we_exc = "none"

ParseIdle ==
    /\ cell_text = <<>>
    /\ parse_kind = "none"
    /\ parse_out = None
    /\ parse_pc = "idle"

LoginIdle ==
    /\ nv_pc = "idle"
    /\ nv_op = "none"
    /\ nv_url = <<>>
    /\ nv_logged_in = FALSE

WinIdle ==
    /\ window_handles = <<>>
    /\ current_window = <<>>
    /\ window_requested = 0
    /\ gm_pc = "idle"
    /\ gm_original = 0
    /\ gm_new = 0
    /\ mets = None
    /\ gm_exc = "none"
    /\ td_pc = "idle"
    /\ td_todo = <<>>
    /\ td_exc = "none"

PollIdle ==
    /\ frames = 0
    /\ wj_pc = "idle"
    /\ wj_result = None
    /\ wj_exc = "none"

ExposeIdle ==
    /\ group_expanded = FALSE
    /\ ex_pc = "idle"
    /\ ex_elem = NoElem
    /\ is_visible = FALSE
    /\ ex_exc = "none"
    /\ ex_calls = 0
    /\ ex_clicks = 0

TreeIdle ==
    /\ tree_expanded = {}
    /\ tr_pc = "idle"
    /\ tr_path = <<>>
    /\ tr_i = 0
    /\ tr_xtrail = <<>>
    /\ tr_exc = "none"
    /\ tr_calls = 0
    /\ tr_clicks = <<>>
    /\ tr_added = <<>>

NavigateIdle ==
    /\ ng_pc = "idle"
    /\ ng_url = <<>>
    /\ ng_calls = 0
    /\ ng_gets = 0
    /\ ng_logins = 0
    /\ ng_redirected = FALSE

ClassifyIdle ==
    /\ cl_pc = "idle"
    /\ cl_row = HeaderRow(<<"1">>)
    /\ cl_row_dict = EmptyDict
    /\ cl_type = "none"
    /\ cl_handler = "none"
    /\ cl_out = Ok(EmptyDict)

MoreIdle ==
    /\ ExposeIdle
    /\ TreeIdle
    /\ NavigateIdle
    /\ ClassifyIdle

RestIdle ==
    /\ StartIdle
    /\ WaitIdle
    /\ ParseIdle
    /\ LoginIdle
    /\ WinIdle
    /\ PollIdle
    /\ MoreIdle

(***************************************************************************)
(* The tables of the scraper's specification: every sequence of at most    *)
(* MaxRows rows, cut into at most MaxPages non-empty pages (an empty table *)
(* is one empty page).                                                     *)
(***************************************************************************)
Tables == UNION {[1..n -> RowSet] : n \in 0..MaxRows}

\* the cuts of n rows into np pages: the index of the last row of each page
Cuts(n, np) ==
    {c \in [1..np -> 0..n] :
        /\ c[np] = n
        /\ \A j \in 1..np : (IF j = 1 THEN 0 ELSE c[j - 1]) < c[j] \/ n = 0}

PagesOf(t, c) ==
    [j \in DOMAIN c |-> SubSeq(t, (IF j = 1 THEN 0 ELSE c[j - 1]) + 1, c[j])]

PageSets ==
    {PagesOf(t, c) : t \in {<<>>}, c \in Cuts(0, 1)} \cup
    UNION {{PagesOf(t, c) : c \in Cuts(Len(t), np)} :
              t \in Tables \ {<<>>}, np \in 1..MaxPages}

DriverInit ==
    /\ driver = 1
    /\ all_drivers = <<1>>
    /\ open_drivers = {1}
    /\ current_url = <<get_transfer_url>>
    /\ session = {1}

ScrapeInit ==
    /\ pages \in PageSets
    /\ tasks_url = 1
    /\ table_dict = [job_output |-> "Completed successfully",
                     tasks |-> EmptyDict]
    /\ row_dict = EmptyDict
    /\ row_i = 0
    /\ pt_pc = "call"
    /\ exc = "none"

InitScrape ==
    /\ ScrapeInit
    /\ DriverInit
    /\ NavIdle
    /\ StaleIdle
    /\ DomInit
    /\ JobIdle
    /\ RmIdle
    /\ RestIdle

NextScrape ==
    \/ parse_tasks_table_open
    \/ parse_tasks_table_row
    \/ parse_tasks_table_end

SpecScrape == InitScrape /\ [][NextScrape]_vars

(***************************************************************************)
(* What a table holds, read off the table itself: its header-row groups.   *)
(***************************************************************************)
IsHeaderRow(r) == \E u \in Uuids : r = HeaderRow(u)

UuidOfRow(r) == CHOOSE u \in Uuids : r = HeaderRow(u)

HeaderIdx(t) == {j \in 1..Len(t) : IsHeaderRow(t[j])}

GroupCount(t) == Cardinality(HeaderIdx(t))

GroupUuids(t) == {UuidOfRow(t[j]) : j \in HeaderIdx(t)}

DistinctUuids(t) == Cardinality(GroupUuids(t)) = GroupCount(t)

StartsWithHeader(t) == t # <<>> /\ IsHeaderRow(t[1])

\* the rows of the group whose header row is row j of t
GroupRows(t, j) ==
    LET later == {k \in HeaderIdx(t) : k > j}
        e == IF later = {} THEN Len(t)
             ELSE (CHOOSE k \in later : \A m \in later : k <= m) - 1
    IN  SubSeq(t, j, e)

k_file_name == <<"f", "i", "l", "e", "_", "n", "a", "m", "e">>

\* the fields of the record of a group
GroupKeys(g) ==
    {k_file_uuid, k_file_name}
        \cup (IF \E j \in 1..Len(g) : g[j] = CommandRow
              THEN {k_command, k_arguments} ELSE {})
        \cup (IF \E j \in 1..Len(g) : g[j] = StdoutRow THEN {k_stdout} ELSE {})
        \cup (IF \E j \in 1..Len(g) : g[j] = StderrRow THEN {k_stderr} ELSE {})

RECURSIVE Concat(_)
Concat(ps) == IF ps = <<>> THEN <<>> ELSE Head(ps) \o Concat(Tail(ps))

AllRows == Concat(pages)

Finished == pt_pc \in {"done", "raised"}

\* the mapping holds exactly one record for each group of t, under the
\* group's file_uuid and with the group's fields
RecordsOf(t) ==
    /\ Cardinality(DOMAIN table_dict.tasks) = GroupCount(t)
    /\ DOMAIN table_dict.tasks = GroupUuids(t)
    /\ \A j \in HeaderIdx(t) :
           LET u == UuidOfRow(t[j])
           IN  /\ u \in DOMAIN table_dict.tasks
               /\ table_dict.tasks[u][k_file_uuid] = u
               /\ DOMAIN table_dict.tasks[u] = GroupKeys(GroupRows(t, j))

max_click_transfer_directory_tries == 5
max_click_aip_directory_tries == 5

RECURSIVE lstrip_chars(_, _)
lstrip_chars(s, cs) ==
    IF s # <<>> /\ Head(s) \in cs THEN lstrip_chars(Tail(s), cs) ELSE s

RECURSIVE rstrip_chars(_, _)
rstrip_chars(s, cs) ==
    IF s # <<>> /\ s[Len(s)] \in cs
    THEN rstrip_chars(SubSeq(s, 1, Len(s) - 1), cs) ELSE s

\* s.strip(chars)
strip_chars(s, cs) == rstrip_chars(lstrip_chars(s, cs), cs)

\* the segments of a path of the transfer browser
transfer_path_parts(p) == split(strip_chars(p, {"/"}), <<"/">>)

\* the segments of a path of the AIP browser: a last segment METS.<x>
\* becomes METS__<x>
aip_path_parts(p) ==
    LET parts == split(strip_chars(p, {"/"}), <<"/">>)
        last == parts[Len(parts)]
    IN  IF startswith(last, <<"M", "E", "T", "S", ".">>)
        THEN [parts EXCEPT ![Len(parts)] =
                 <<"M", "E", "T", "S", "_", "_">> \o SubSeq(last, 6, Len(last))]
        ELSE parts

path_parts ==
    IF nav_variant = "transfer" THEN transfer_path_parts(path)
    ELSE aip_path_parts(path)

AipRoot ==
    <<"e", "x", "p", "l", "o", "r", "e", "r", "_", "v", "a", "r", "_", "a",
      "r", "c", "h", "i", "v", "e", "m", "a", "t", "i", "c", "a", "_", "s",
      "h", "a", "r", "e", "d", "D", "i", "r", "e", "c", "t", "o", "r", "y",
      "_", "w", "a", "t", "c", "h", "e", "d", "D", "i", "r", "e", "c", "t",
      "o", "r", "i", "e", "s">>

TransferPaths ==
    {<<"a">>, <<"a", "/", "a">>, <<"/", "a", "/", "b", "/", "c", "/">>}

AipPaths ==
    {<<"s", "/", "M", "E", "T", "S", ".", "x">>,
     <<"s", "/", "t", "/", "u">>}

\* the failures the retry of the navigation catches
CaughtKinds == {"TimeoutException", "MoveTargetOutOfBoundsException"}

\* an exception raised by the browser automation: its message is the
\* library's, not the harness's
WebDriverExc(type) == [type |-> type, msg |-> <<>>]

failed_transfer_msg ==
    <<"F", "a", "i", "l", "e", "d", " ", "t", "o", " ", "n", "a", "v", "i",
      "g", "a", "t", "e", " ", "t", "o", " ", "t", "r", "a", "n", "s", "f",
      "e", "r", " ", "d", "i", "r", "e", "c", "t", "o", "r", "y", " ">>

failed_aip_msg ==
    <<"F", "a", "i", "l", "e", "d", " ", "t", "o", " ", "n", "a", "v", "i",
      "g", "a", "t", "e", " ", "t", "o", " ", "a", "i", "p", " ", "d", "i",
      "r", "e", "c", "t", "o", "r", "y", " ">>

nav_tries ==
    IF nav_variant = "transfer" THEN click_transfer_directory_tries
    ELSE click_aip_directory_tries

nav_max_tries ==
    IF nav_variant = "transfer" THEN max_click_transfer_directory_tries
    ELSE max_click_aip_directory_tries

set_nav_tries(n) ==
    IF nav_variant = "transfer"
    THEN /\ click_transfer_directory_tries' = n
         /\ UNCHANGED click_aip_directory_tries
    ELSE /\ click_aip_directory_tries' = n
         /\ UNCHANGED click_transfer_directory_tries

\* a retry that goes on with the segment that failed
navigate_attempt_resume(v) ==
    IF nav_pc = "except"
    THEN UNCHANGED <<seg_i, xtrail, cwd>>
    ELSE /\ seg_i' = 1
         /\ xtrail' = IF v = "transfer" THEN <<>> ELSE xtrail
         /\ cwd' = IF v = "transfer" THEN cwd ELSE <<AipRoot>>

\* the start of _navigate_to_*_directory_and_click: the prefix is reset and
\* the loop starts at the first segment
navigate_attempt_start(v) ==
    /\ seg_i' = 1
    /\ xtrail' = IF v = "transfer" THEN <<>> ELSE xtrail
    /\ cwd' = IF v = "transfer" THEN cwd ELSE <<AipRoot>>

\* a counter compared with > instead of >=
tries_exhausted_late(tries, max_tries) == tries > max_tries

tries_exhausted(tries, max_tries) == tries >= max_tries

\* a top-level call
navigate_call ==
    /\ nav_pc \in {"idle", "returned", "raised"}
    /\ nav_calls < MaxNavCalls
    /\ \E v \in {"transfer", "aip"} :
         \E p \in (IF v = "transfer" THEN TransferPaths ELSE AipPaths) :
            /\ nav_variant' = v
            /\ path' = p
            /\ navigate_attempt_start(v)
    /\ nav_calls' = nav_calls + 1
    /\ nav_attempts' = 1
    /\ nav_failed_seg' = 0
    /\ inner_retries' = 0
    /\ nav_exc' = NoExc
    /\ nav_pc' = "wait"
    /\ UNCHANGED <<click_transfer_directory_tries, click_aip_directory_tries,
                   printed>>
    /\ UNCHANGED nav_others

nav_fail(type) ==
    /\ nav_exc' = WebDriverExc(type)
    /\ nav_failed_seg' = seg_i
    /\ nav_pc' = IF type \in CaughtKinds THEN "except" ELSE "raised"

\* the segment is added to the prefix and the wait of one second for the
\* node (transfer browser) or for the explorer (AIP browser) is made
navigate_wait ==
    /\ nav_pc = "wait"
    /\ IF nav_variant = "transfer"
       THEN /\ xtrail' = Append(xtrail, path_parts[seg_i])
            /\ UNCHANGED cwd
       ELSE /\ cwd' = Append(cwd, path_parts[seg_i])
            /\ UNCHANGED xtrail
    /\ \/ /\ nav_pc' = "click"
          /\ UNCHANGED <<nav_exc, nav_failed_seg>>
       \/ nav_fail("TimeoutException")
    /\ UNCHANGED <<nav_variant, path, seg_i, click_transfer_directory_tries,
                   click_aip_directory_tries, printed, nav_calls,
                   nav_attempts, inner_retries>>
    /\ UNCHANGED nav_others

\* the last segment is clicked (and then "Add", in the transfer browser);
\* any other segment is expanded and its children are waited for
navigate_click ==
    /\ nav_pc = "click"
    /\ LET is_last == seg_i = Len(path_parts)
       IN  \/ /\ IF is_last
                 THEN /\ nav_pc' = "else"
                      /\ UNCHANGED seg_i
                 ELSE /\ nav_pc' = "wait"
                      /\ seg_i' = seg_i + 1
              /\ UNCHANGED <<nav_exc, nav_failed_seg>>
           \/ /\ ~(is_last /\ nav_variant = "transfer")
              /\ nav_fail("TimeoutException")
              /\ UNCHANGED seg_i
           \/ /\ \E type \in {"MoveTargetOutOfBoundsException",
                              "NoSuchElementException"} : nav_fail(type)
              /\ UNCHANGED seg_i
    /\ inner_retries' = 0
    /\ UNCHANGED <<nav_variant, path, xtrail, cwd,
                   click_transfer_directory_tries, click_aip_directory_tries,
                   printed, nav_calls, nav_attempts>>
    /\ UNCHANGED nav_others

\* click_folder_old_browser: the children did not become visible in time,
\* the same folder is clicked again
click_folder_old_browser_again ==
    /\ nav_pc = "click"
    /\ nav_variant = "aip"
    /\ seg_i < Len(path_parts)
    /\ inner_retries < MaxInnerRetries
    /\ inner_retries' = inner_retries + 1
    /\ UNCHANGED <<nav_variant, path, nav_pc, seg_i, xtrail, cwd,
                   click_transfer_directory_tries, click_aip_directory_tries,
                   nav_exc, printed, nav_calls, nav_attempts, nav_failed_seg>>
    /\ UNCHANGED nav_others

\* the handler of a timeout or of a click out of the viewport: the counter
\* is incremented; at the maximum the failure is printed, the counter reset
\* and the exception raised again, else the whole call is made again
navigate_except ==
    /\ nav_pc = "except"
    /\ IF tries_exhausted(nav_tries + 1, nav_max_tries)
       THEN /\ printed' = Append(printed,
                   (IF nav_variant = "transfer" THEN failed_transfer_msg
                    ELSE failed_aip_msg) \o path)
            /\ set_nav_tries(0)
            /\ nav_pc' = "raised"
            /\ UNCHANGED <<seg_i, xtrail, cwd, nav_attempts, inner_retries>>
       ELSE /\ set_nav_tries(nav_tries + 1)
            /\ nav_attempts' = nav_attempts + 1
            /\ inner_retries' = 0
            /\ navigate_attempt_start(nav_variant)
            /\ nav_pc' = "wait"
            /\ UNCHANGED printed
    /\ UNCHANGED <<nav_variant, path, nav_exc, nav_calls, nav_failed_seg>>
    /\ UNCHANGED nav_others

\* the else clause of the try: the counter is reset
navigate_else ==
    /\ nav_pc = "else"
    /\ set_nav_tries(0)
    /\ nav_pc' = "returned"
    /\ UNCHANGED <<nav_variant, path, seg_i, xtrail, cwd, nav_exc, printed,
                   nav_calls, nav_attempts, nav_failed_seg, inner_retries>>
    /\ UNCHANGED nav_others

InitNav ==
    /\ NavIdle
    /\ DriverInit
    /\ ScrapeIdle
    /\ StaleIdle
    /\ DomInit
    /\ JobIdle
    /\ RmIdle
    /\ RestIdle

NextNav ==
    \/ navigate_call
    \/ navigate_wait
    \/ navigate_click
    \/ click_folder_old_browser_again
    \/ navigate_except
    \/ navigate_else

SpecNav == InitNav /\ [][NextNav]_vars

\* the prefix with which an attempt starts
EmptyPrefix ==
    IF nav_variant = "transfer" THEN xtrail = <<>> ELSE cwd = <<AipRoot>>

\* C3: when an attempt fails with a timeout or a click out of the viewport
\* (at whatever segment, in particular at a segment k > 1), the next attempt
\* starts at segment 1 with an empty accumulated prefix; it never resumes at
\* segment k.
C3_RetryFromStart ==
    [][(nav_pc = "except" /\ nav_pc' = "wait")
          => (seg_i' = 1 /\ EmptyPrefix' /\ nav_attempts' = nav_attempts + 1)]_vars

\* the second attempt is at segment 1 after the first one failed at segment 2
C3_Witness ==
    /\ nav_pc = "wait"
    /\ nav_attempts = 2
    /\ nav_failed_seg = 2
    /\ Len(path_parts) = 3
    /\ seg_i = 1
    /\ EmptyPrefix

\* C4, as stated: a top-level call makes at most 5 attempts, and after the
\* last one it raises an error that names the original path.
C4_AsStated ==
    /\ nav_attempts <= nav_max_tries
    /\ (nav_pc = "raised" /\ nav_exc.type \in CaughtKinds)
           => find(nav_exc.msg, path) # 0

\* C4, amended: a top-level call makes at most 5 attempts; after the last
\* one it prints a message that names the original path, resets the counter
\* and raises the caught exception again, which does not name the path.
C4_Bounded ==
    /\ nav_attempts <= nav_max_tries
    /\ (nav_pc = "raised" /\ nav_exc.type \in CaughtKinds)
           => (/\ printed # <<>>
               /\ find(printed[Len(printed)], path) # 0
               /\ nav_tries = 0
               /\ nav_exc = WebDriverExc(nav_exc.type)
               /\ find(nav_exc.msg, path) = 0)

\* the fifth attempt failed and the call raised
C4_Witness ==
    /\ nav_pc = "raised"
    /\ nav_attempts = 5
    /\ nav_exc.type = "TimeoutException"
    /\ printed # <<>>

(***************************************************************************)
(* recurse_on_stale(func).  func is any operation on the page: it takes    *)
(* FuncSteps steps, at any point of which it may raise, and then returns.  *)
(***************************************************************************)
Stale == "StaleElementReferenceException"

OtherKinds == {"NoSuchElementException", "AttributeError"}

FuncArgs == {<<"Validate formats", "Validation", "u1">>,
             <<"Store AIP", "Store AIP", "u1">>,
             <<"Store AIP", "Store AIP", "u2">>}

FuncResults == {<<"j1", "Failed">>, <<"j2", "Completed successfully">>}

\* a wrapper that gives up on a stale element and returns None
wrapper_on_raise_swallow(kind) ==
    IF kind = Stale THEN "return_none" ELSE "propagate"

\* a wrapper that retries on any exception
wrapper_on_raise_any(kind) == "reinvoke"

\* what the wrapper does with an exception of func
wrapper_on_raise(kind) == IF kind = Stale THEN "reinvoke" ELSE "propagate"

\* the wrapper is called and invokes func with its arguments
recurse_on_stale_call ==
    /\ ros_pc = "idle"
    /\ \E a \in FuncArgs :
          /\ ros_args' = a
          /\ func_args' = a
    /\ func_pos' = 0
    /\ ros_invocations' = 1
    /\ ros_pc' = "running"
    /\ UNCHANGED <<ros_result, ros_exc, ros_outcomes>>
    /\ UNCHANGED stale_others

\* func makes progress
func_step ==
    /\ ros_pc = "running"
    /\ func_pos < FuncSteps
    /\ func_pos' = func_pos + 1
    /\ UNCHANGED <<ros_pc, ros_args, func_args, ros_result, ros_exc,
                   ros_invocations, ros_outcomes>>
    /\ UNCHANGED stale_others

\* func returns, and the wrapper returns what func returned
func_return ==
    /\ ros_pc = "running"
    /\ func_pos = FuncSteps
    /\ \E v \in FuncResults :
          /\ ros_result' = v
          /\ ros_outcomes' = Append(ros_outcomes, [kind |-> "return", val |-> v])
    /\ ros_pc' = "returned"
    /\ UNCHANGED <<ros_args, func_args, func_pos, ros_exc, ros_invocations>>
    /\ UNCHANGED stale_others

\* func raises: the wrapper invokes func again, from its beginning and with
\* the arguments of the call, or lets the exception through
func_raise ==
    /\ ros_pc = "running"
    /\ \E kind \in {Stale} \cup OtherKinds :
          /\ kind = Stale => ros_invocations < MaxInvocations
          /\ ros_outcomes' =
                 Append(ros_outcomes, [kind |-> kind, val |-> None])
          /\ CASE wrapper_on_raise(kind) = "reinvoke" ->
                    /\ func_args' = ros_args
                    /\ func_pos' = 0
                    /\ ros_invocations' = ros_invocations + 1
                    /\ UNCHANGED <<ros_pc, ros_result, ros_exc>>
               [] wrapper_on_raise(kind) = "propagate" ->
                    /\ ros_pc' = "raised"
                    /\ ros_exc' = kind
                    /\ UNCHANGED <<func_args, func_pos, ros_invocations,
                                   ros_result>>
               [] OTHER ->
                    /\ ros_pc' = "returned"
                    /\ ros_result' = None
                    /\ UNCHANGED <<func_args, func_pos, ros_invocations,
                                   ros_exc>>
    /\ UNCHANGED ros_args
    /\ UNCHANGED stale_others

InitStale ==
    /\ StaleIdle
    /\ DriverInit
    /\ ScrapeIdle
    /\ NavIdle
    /\ DomInit
    /\ JobIdle
    /\ RmIdle
    /\ RestIdle

NextStale ==
    \/ recurse_on_stale_call
    \/ func_step
    \/ func_return
    \/ func_raise

SpecStale == InitStale /\ [][NextStale]_vars

\* the last outcome recorded in a step, if the step recorded one
Ended(kinds) ==
    /\ Len(ros_outcomes') = Len(ros_outcomes) + 1
    /\ ros_outcomes'[Len(ros_outcomes')].kind \in kinds

C6_OthersPropagate ==
    /\ [][Ended(OtherKinds)
             => (/\ ros_pc' = "raised"
                 /\ ros_exc' = ros_outcomes'[Len(ros_outcomes')].kind
                 /\ ros_invocations' = ros_invocations)]_vars
    /\ [](ros_pc = "raised"
            => (/\ ros_exc \in OtherKinds
                /\ ros_invocations = Len(ros_outcomes)
                /\ \A j \in 1..(Len(ros_outcomes) - 1) :
                       ros_outcomes[j].kind = Stale))

\* the first invocation failed with another kind and the call raised it
C6_Witness ==
    /\ ros_pc = "raised"
    /\ ros_invocations = 1
    /\ ros_exc = "NoSuchElementException"

(***************************************************************************)
(* The job rows of a micro-service group, as the dashboard renders them:   *)
(* the group appears, job rows are added below the ones already there, a   *)
(* job that is executing ends with one of the two terminal outputs and     *)
(* then changes no more; the page may be rendered again at any time, which *)
(* invalidates the elements held.                                          *)
(***************************************************************************)
MsName == <<"A">>

JobNames == {<<"A", " ">>, <<"B">>}

Digit == <<"1", "2", "3", "4", "5", "6", "7", "8", "9">>

JobTitle(k) == <<" ", "j", Digit[k]>>

S_Failed == <<"F", "a", "i", "l", "e", "d">>

S_Completed ==
    <<"C", "o", "m", "p", "l", "e", "t", "e", "d", " ", "s", "u", "c", "c",
      "e", "s", "s", "f", "u", "l", "l", "y">>

S_Executing ==
    <<"E", "x", "e", "c", "u", "t", "i", "n", "g", " ", "c", "o", "m", "m",
      "a", "n", "d", "(", "s", ")">>

TerminalOutputs == {S_Failed, S_Completed}

env_group_appears ==
    /\ ~group_present
    /\ group_present' = TRUE
    /\ UNCHANGED <<jobs, gj_pc, gj_elem, gj_result, gj_exc, gj_polls,
                   gj_results>>
    /\ UNCHANGED <<driver_vars, dom_vars, job_others>>

env_job_appears ==
    /\ group_present
    /\ Len(jobs) < MaxJobs
    /\ \E n \in JobNames :
          jobs' = Append(jobs, [name |-> n, status |-> S_Executing \o <<" ">>,
                                title |-> JobTitle(Len(jobs) + 1)])
    /\ UNCHANGED <<group_present, gj_pc, gj_elem, gj_result, gj_exc, gj_polls,
                   gj_results>>
    /\ UNCHANGED <<driver_vars, dom_vars, job_others>>

env_job_ends ==
    /\ \E k \in 1..Len(jobs) : \E out \in TerminalOutputs :
          /\ strip(jobs[k].status) \notin TerminalOutputs
          /\ jobs' = [jobs EXCEPT ![k].status = out]
    /\ UNCHANGED <<group_present, gj_pc, gj_elem, gj_result, gj_exc, gj_polls,
                   gj_results>>
    /\ UNCHANGED <<driver_vars, dom_vars, job_others>>

env_rerender_jobs ==
    /\ dom_version < MaxRerenders
    /\ dom_version' = dom_version + 1
    /\ UNCHANGED clicks
    /\ UNCHANGED job_vars
    /\ UNCHANGED <<driver_vars, job_others>>

(***************************************************************************)
(* get_job_uuid, under recurse_on_stale.                                   *)
(***************************************************************************)
\* a scan that keeps the last job row whose name is ms_name
last_match(js, ms_name) ==
    LET ms == {k \in 1..Len(js) : strip(js[k].name) = ms_name}
    IN  IF ms = {} THEN 0 ELSE CHOOSE k \in ms : \A m \in ms : k >= m

\* the job row the two loops reach first whose name is ms_name, 0 if none
first_match(js, ms_name) ==
    LET ms == {k \in 1..Len(js) : strip(js[k].name) = ms_name}
    IN  IF ms = {} THEN 0 ELSE CHOOSE k \in ms : \A m \in ms : k <= m

is_terminal(job_output) == job_output \in TerminalOutputs

\* an element of the page is stale once the page was rendered again
is_stale(elem) == elem.ver # dom_version

\* a top-level call
get_job_uuid_call ==
    /\ gj_pc \in {"idle", "returned"}
    /\ gj_polls < MaxPolls
    /\ gj_polls' = gj_polls + 1
    /\ gj_pc' = "group"
    /\ UNCHANGED <<group_present, jobs, gj_elem, gj_result, gj_exc, gj_results>>
    /\ UNCHANGED <<driver_vars, dom_vars, job_others>>

\* get_transfer_micro_service_group_elem: the group element, or None
get_job_uuid_group ==
    /\ gj_pc = "group"
    /\ gj_elem' = IF group_present THEN [id |-> 1, ver |-> dom_version]
                  ELSE NoElem
    /\ gj_pc' = "scan"
    /\ UNCHANGED <<group_present, jobs, gj_result, gj_exc, gj_polls, gj_results>>
    /\ UNCHANGED <<driver_vars, dom_vars, job_others>>

gj_return(v) ==
    /\ gj_pc' = "returned"
    /\ gj_result' = v
    /\ gj_results' = Append(gj_results, v)
    /\ UNCHANGED gj_exc

gj_raise(kind) ==
    CASE wrapper_on_raise(kind) = "reinvoke" ->
            /\ gj_pc' = "group"
            /\ UNCHANGED <<gj_result, gj_results, gj_exc>>
      [] wrapper_on_raise(kind) = "propagate" ->
            /\ gj_pc' = "raised"
            /\ gj_exc' = kind
            /\ UNCHANGED <<gj_result, gj_results>>
      [] OTHER -> gj_return(<<None, None>>)

\* the loops over the job rows of the group element
get_job_uuid_scan ==
    /\ gj_pc = "scan"
    /\ LET k == first_match(jobs, MsName)
       IN  IF gj_elem = NoElem THEN gj_raise("AttributeError")
           ELSE IF is_stale(gj_elem) THEN gj_raise(Stale)
           ELSE IF k = 0 THEN gj_return(<<None, None>>)
           ELSE IF is_terminal(strip(jobs[k].status))
           THEN gj_return(<<strip(jobs[k].title), strip(jobs[k].status)>>)
           ELSE /\ gj_pc' = "group"
                /\ UNCHANGED <<gj_result, gj_results, gj_exc>>
    /\ UNCHANGED <<group_present, jobs, gj_elem, gj_polls>>
    /\ UNCHANGED <<driver_vars, dom_vars, job_others>>

InitJob ==
    /\ JobIdle
    /\ DriverInit
    /\ DomInit
    /\ ScrapeIdle
    /\ NavIdle
    /\ StaleIdle
    /\ RmIdle
    /\ RestIdle

NextJob ==
    \/ env_group_appears
    \/ env_job_appears
    \/ env_job_ends
    \/ env_rerender_jobs
    \/ get_job_uuid_call
    \/ get_job_uuid_group
    \/ get_job_uuid_scan

SpecJob == InitJob /\ [][NextJob]_vars

\* the job rows named ms_name, read off the page
RowsNamed(ms_name) == {k \in 1..Len(jobs) : strip(jobs[k].name) = ms_name}

FirstRowNamed(ms_name) ==
    CHOOSE k \in RowsNamed(ms_name) : \A m \in RowsNamed(ms_name) : k <= m

\* C8, as stated: get_job_uuid returns only a terminal status (with the
\* job's identifier); an in-progress or absent job is polled again.
C8_AsStated == gj_pc = "returned" => gj_result[2] \in TerminalOutputs

\* C9: once a poll has returned a terminal status, every later poll returns
\* the same status and job identifier, and no step of a poll changes the
\* page, the browser or the clicks made.
C9_Idempotent ==
    /\ [](\A i, j \in DOMAIN gj_results :
              (i < j /\ gj_results[i][2] \in TerminalOutputs)
                  => gj_results[j] = gj_results[i])
    /\ [][(gj_pc' # gj_pc \/ gj_polls' # gj_polls)
             => UNCHANGED <<driver_vars, dom_vars, group_present, jobs>>]_vars

\* two polls of a job in a terminal state returned the same
C9_Witness ==
    /\ Len(gj_results) = 2
    /\ gj_results[1][2] \in TerminalOutputs
    /\ gj_results[2] = gj_results[1]

(***************************************************************************)
(* The list of units (transfers or ingests) of a tab and its confirmation  *)
(* dialog.  The dashboard opens the dialog some time after "Remove" was    *)
(* clicked, hides and then drops the row of a unit some time after         *)
(* "Confirm" was clicked, and may render the list again at any time.  No   *)
(* unit is added while the units are being removed.                        *)
(***************************************************************************)
UnitIds(us) == {us[k].id : k \in 1..Len(us)}

UnitsOf(n) == [k \in 1..n |-> [id |-> k, displayed |-> TRUE]]

\* the row of unit id is rendered, and displayed
is_displayed(us, id) == \E k \in 1..Len(us) : us[k].id = id /\ us[k].displayed

\* an element of the list is stale once the list was rendered again or its
\* row was dropped
is_stale_unit(elem) == elem.ver # dom_version \/ elem.id \notin UnitIds(units)

env_dialog_opens ==
    /\ dialog_requested
    /\ dialog # "displayed"
    /\ dialog' = "displayed"
    /\ UNCHANGED <<units, dialog_requested, pending, rm_pc, top_transfer_elem,
                   rm_exc, rm_confirmed>>
    /\ UNCHANGED <<driver_vars, dom_vars, rm_others>>

env_unit_hides ==
    /\ pending # 0
    /\ is_displayed(units, pending)
    /\ units' = [k \in 1..Len(units) |->
                    IF units[k].id = pending
                    THEN [units[k] EXCEPT !.displayed = FALSE] ELSE units[k]]
    /\ UNCHANGED <<dialog, dialog_requested, pending, rm_pc, top_transfer_elem,
                   rm_exc, rm_confirmed>>
    /\ UNCHANGED <<driver_vars, dom_vars, rm_others>>

env_unit_dropped ==
    /\ pending \in UnitIds(units)
    /\ ~is_displayed(units, pending)
    /\ units' = SelectSeq(units, LAMBDA u : u.id # pending)
    /\ pending' = 0
    /\ UNCHANGED <<dialog, dialog_requested, rm_pc, top_transfer_elem, rm_exc,
                   rm_confirmed>>
    /\ UNCHANGED <<driver_vars, dom_vars, rm_others>>

env_rerender_units ==
    /\ dom_version < MaxRerenders
    /\ dom_version' = dom_version + 1
    /\ UNCHANGED clicks
    /\ UNCHANGED rm_vars
    /\ UNCHANGED <<driver_vars, rm_others>>

(***************************************************************************)
(* remove_all_transfers, remove_all_ingests, remove_top_transfer and       *)
(* get_top_transfer.                                                       *)
(***************************************************************************)
\* a query that skips the rows that are not displayed
get_top_transfer_displayed(us) ==
    LET shown == SelectSeq(us, LAMBDA u : u.displayed)
    IN  IF Len(shown) > 0 THEN [id |-> shown[1].id, ver |-> dom_version]
        ELSE NoElem

\* the first div.sip of the page, or None
get_top_transfer(us) ==
    IF Len(us) > 0 THEN [id |-> us[1].id, ver |-> dom_version] ELSE NoElem

rm_raise(kind) ==
    /\ rm_pc' = "raised"
    /\ rm_exc' = kind

\* the tab is opened, logging in if the browser was sent to the login page
remove_all_call ==
    /\ rm_pc = "idle"
    /\ \E url \in {get_transfer_url, get_ingest_url} :
          LET ses == IF driver_get(session, driver, url) # url
                     THEN login(session, driver) ELSE session
          IN  /\ session' = ses
              /\ current_url' =
                     [current_url EXCEPT ![driver] = driver_get(ses, driver, url)]
    /\ rm_pc' = "top"
    /\ UNCHANGED <<units, dialog, dialog_requested, pending, top_transfer_elem,
                   rm_exc, rm_confirmed>>
    /\ UNCHANGED <<driver, all_drivers, open_drivers, dom_vars, rm_others>>

\* while True: top_transfer_elem = self.get_top_transfer() ...
remove_all_loop ==
    /\ rm_pc = "top"
    /\ top_transfer_elem' = get_top_transfer(units)
    /\ rm_pc' = IF get_top_transfer(units) = NoElem THEN "done" ELSE "find"
    /\ UNCHANGED <<units, dialog, dialog_requested, pending, rm_exc,
                   rm_confirmed>>
    /\ UNCHANGED <<driver_vars, dom_vars, rm_others>>

\* remove_elem = top_transfer_elem.find_element_by_css_selector(...)
remove_top_transfer_find ==
    /\ rm_pc = "find"
    /\ IF is_stale_unit(top_transfer_elem) THEN rm_raise(Stale)
       ELSE rm_pc' = "click" /\ UNCHANGED rm_exc
    /\ UNCHANGED <<units, dialog, dialog_requested, pending, top_transfer_elem,
                   rm_confirmed>>
    /\ UNCHANGED <<driver_vars, dom_vars, rm_others>>

\* remove_elem.click()
remove_top_transfer_click ==
    /\ rm_pc = "click"
    /\ IF is_stale_unit(top_transfer_elem)
       THEN rm_raise(Stale) /\ UNCHANGED <<clicks, dialog_requested>>
       ELSE IF ~is_displayed(units, top_transfer_elem.id)
       THEN /\ rm_raise("ElementNotVisibleException")
            /\ UNCHANGED <<clicks, dialog_requested>>
       ELSE /\ clicks' = Append(clicks, <<"Remove", top_transfer_elem.id>>)
            /\ dialog_requested' = TRUE
            /\ rm_pc' = "dialog"
            /\ UNCHANGED rm_exc
    /\ UNCHANGED <<units, dialog, pending, top_transfer_elem, rm_confirmed>>
    /\ UNCHANGED <<driver_vars, dom_version, rm_others>>

\* the wait for a dialog (which may time out) and the search of the one
\* that is displayed
remove_top_transfer_dialog ==
    /\ rm_pc = "dialog"
    /\ IF dialog = "displayed" THEN rm_pc' = "confirm" /\ UNCHANGED rm_exc
       ELSE rm_raise("UnboundLocalError")
    /\ UNCHANGED <<units, dialog, dialog_requested, pending, top_transfer_elem,
                   rm_confirmed>>
    /\ UNCHANGED <<driver_vars, dom_vars, rm_others>>

\* the click on "Confirm" and the wait for the dialog to be invisible
remove_top_transfer_confirm ==
    /\ rm_pc = "confirm"
    /\ clicks' = Append(clicks, <<"Confirm", top_transfer_elem.id>>)
    /\ pending' = top_transfer_elem.id
    /\ dialog' = "hidden"
    /\ dialog_requested' = FALSE
    /\ rm_confirmed' = rm_confirmed + 1
    /\ rm_pc' = "gone"
    /\ UNCHANGED <<units, top_transfer_elem, rm_exc>>
    /\ UNCHANGED <<driver_vars, dom_version, rm_others>>

\* while top_transfer_elem.is_displayed(): sleep, left when the row is not
\* displayed or when the element is stale
remove_top_transfer_gone ==
    /\ rm_pc = "gone"
    /\ \/ is_stale_unit(top_transfer_elem)
       \/ ~is_displayed(units, top_transfer_elem.id)
    /\ rm_pc' = "top"
    /\ UNCHANGED <<units, dialog, dialog_requested, pending, top_transfer_elem,
                   rm_exc, rm_confirmed>>
    /\ UNCHANGED <<driver_vars, dom_vars, rm_others>>

InitRemove ==
    /\ \E n \in 0..MaxUnits : units = UnitsOf(n)
    /\ dialog = "absent"
    /\ dialog_requested = FALSE
    /\ pending = 0
    /\ rm_pc = "idle"
    /\ top_transfer_elem = NoElem
    /\ rm_exc = "none"
    /\ rm_confirmed = 0
    /\ driver = 1
    /\ all_drivers = <<1>>
    /\ open_drivers = {1}
    /\ current_url = <<BlankUrl>>
    /\ session \in {{}, {1}}
    /\ DomInit
    /\ ScrapeIdle
    /\ NavIdle
    /\ StaleIdle
    /\ JobIdle
    /\ RestIdle

NextRemove ==
    \/ env_dialog_opens
    \/ env_unit_hides
    \/ env_unit_dropped
    \/ env_rerender_units
    \/ remove_all_call
    \/ remove_all_loop
    \/ remove_top_transfer_find
    \/ remove_top_transfer_click
    \/ remove_top_transfer_dialog
    \/ remove_top_transfer_confirm
    \/ remove_top_transfer_gone

SpecRemove == InitRemove /\ [][NextRemove]_vars

\* C7: no stale-element-reference failure reaches the caller of a public
\* workflow operation (here remove_all_transfers and remove_all_ingests).
C7_AsStated == ~(rm_pc = "raised" /\ rm_exc = Stale)

\* C10: once remove_all_transfers or remove_all_ingests has returned, no
\* unit is listed, so that the topmost-unit query returns None.
C10_NoneRemains ==
    rm_pc = "done" => (Len(units) = 0 /\ get_top_transfer(units) = NoElem)

\* two units were listed, both were removed through the dialog, and the
\* operation has returned
C10_Witness ==
    /\ rm_pc = "done"
    /\ \E i, j \in DOMAIN clicks :
          clicks[i] = <<"Confirm", 1>> /\ clicks[j] = <<"Confirm", 2>>

(***************************************************************************)
(* The rows (div.sip) of the tab in which a unit is started.  A row shows  *)
(* the name of its unit and its UUID: in a narrow window the name is       *)
(* followed by an <abbr> "UUID" whose title is the UUID and the UUID       *)
(* column is hidden, in a wide window the <abbr> is hidden and the UUID    *)
(* column shows the UUID.  The dashboard lists the newest unit first, and  *)
(* may list a unit before its UUID is filled in.                           *)
(***************************************************************************)
wait_for_transfer_to_appear_max_waits == 200

TransferNames == {<<"T", "1">>, <<"T", "2">>}

OldUuid == <<"u", "0">>

NewUuid == <<"u", "1">>

SipRow(id, name, uuid, narrow, filled) ==
    [id |-> id, name |-> name, uuid |-> uuid, narrow |-> narrow,
     filled |-> filled]

\* the text of div.sip-detail-directory
sip_name_text(r) ==
    IF r.narrow THEN <<" ">> \o r.name \o <<" ", "U", "U", "I", "D">>
    ELSE <<" ">> \o r.name \o <<" ">>

\* abbr_elem.is_displayed() and its title attribute
sip_abbr_displayed(r) == r.narrow

sip_abbr_title(r) == IF r.filled THEN r.uuid \o <<" ">> ELSE <<>>

\* the text of div.sip-detail-uuid: the text of a hidden element is empty
sip_uuid_text(r) == IF r.filled /\ ~r.narrow THEN <<" ">> \o r.uuid ELSE <<>>

env_unit_appears ==
    /\ st_pc \in {"wait", "approve", "returned", "lookup"}
    /\ \A k \in 1..Len(sips) : sips[k].id # 1
    /\ \E filled \in BOOLEAN :
          sips' = <<SipRow(1, st_name, NewUuid,
                           IF sips = <<>> THEN FALSE ELSE sips[1].narrow,
                           filled)>> \o sips
    /\ UNCHANGED <<wait_for_transfer_to_appear_waits, st_pc, st_name,
                   st_result, st_exc, lk_result, approved, st_dir_added,
                   st_started, st_scans>>
    /\ UNCHANGED <<driver_vars, start_others>>

env_uuid_filled ==
    /\ \E k \in 1..Len(sips) :
          /\ ~sips[k].filled
          /\ sips' = [sips EXCEPT ![k].filled = TRUE]
    /\ UNCHANGED <<wait_for_transfer_to_appear_waits, st_pc, st_name,
                   st_result, st_exc, lk_result, approved, st_dir_added,
                   st_started, st_scans>>
    /\ UNCHANGED <<driver_vars, start_others>>

(***************************************************************************)
(* start_transfer, wait_for_transfer_to_appear and approve_transfer.       *)
(***************************************************************************)
\* transfer_name_in_dom of a row
transfer_name_in_dom(r) ==
    LET t == strip(sip_name_text(r))
    IN  IF endswith(t, <<"U", "U", "I", "D">>)
        THEN strip(SubSeq(t, 1, Len(t) - 4)) ELSE t

\* the UUID read off a row
transfer_uuid_of(r) ==
    IF sip_abbr_displayed(r) THEN strip(sip_abbr_title(r))
    ELSE strip(sip_uuid_text(r))

\* a scan that stops at the first row of the name
first_named(rows, transfer_name) ==
    LET ms == {k \in 1..Len(rows) :
                  transfer_name_in_dom(rows[k]) = transfer_name}
    IN  IF ms = {} THEN 0 ELSE CHOOSE k \in ms : \A m \in ms : k <= m

\* the row the loop assigns last: the last row of the name, 0 if none
last_named(rows, transfer_name) ==
    LET ms == {k \in 1..Len(rows) :
                  transfer_name_in_dom(rows[k]) = transfer_name}
    IN  IF ms = {} THEN 0 ELSE CHOOSE k \in ms : \A m \in ms : k >= m

\* a loop that keeps the UUID of the first row of the name and the element
\* of the last one
scan_transfers_mixed(rows, transfer_name) ==
    LET k == last_named(rows, transfer_name)
        j == first_named(rows, transfer_name)
    IN  IF k = 0 THEN <<None, None>>
        ELSE <<transfer_uuid_of(rows[j]), <<"div.sip", rows[k].id>>>>

\* transfer_uuid, correct_transfer_div_elem after the loop over the rows
scan_transfers(rows, transfer_name) ==
    LET k == last_named(rows, transfer_name)
    IN  IF k = 0 THEN <<None, None>>
        ELSE <<transfer_uuid_of(rows[k]), <<"div.sip", rows[k].id>>>>

\* if not transfer_uuid
not_uuid(u) == u = None \/ u = <<>>

\* navigate_to_transfer_tab and the name
start_transfer_call ==
    /\ st_pc = "idle"
    /\ \E n \in TransferNames : st_name' = n
    /\ LET url == get_transfer_url
           ses == IF driver_get(session, driver, url) # url
                  THEN login(session, driver) ELSE session
       IN  /\ session' = ses
           /\ current_url' =
                  [current_url EXCEPT ![driver] = driver_get(ses, driver, url)]
    /\ st_pc' = "add"
    /\ UNCHANGED <<sips, wait_for_transfer_to_appear_waits, st_result, st_exc,
                   lk_result, approved, st_dir_added, st_started, st_scans>>
    /\ UNCHANGED <<driver, all_drivers, open_drivers, start_others>>

\* add_transfer_directory: navigate_to_transfer_directory_and_click returns
\* once "Add" was clicked, or raises
add_transfer_directory ==
    /\ st_pc = "add"
    /\ \/ /\ st_dir_added' = TRUE
          /\ st_pc' = "start"
          /\ UNCHANGED st_exc
       \/ /\ \E type \in CaughtKinds \cup {"NoSuchElementException"} :
                st_exc' = type
          /\ st_pc' = "raised"
          /\ UNCHANGED st_dir_added
    /\ UNCHANGED <<sips, wait_for_transfer_to_appear_waits, st_name, st_result,
                   lk_result, approved, st_started, st_scans>>
    /\ UNCHANGED <<driver_vars, start_others>>

\* click_start_transfer_button, and the call of wait_for_transfer_to_appear
click_start_transfer_button ==
    /\ st_pc = "start"
    /\ st_started' = TRUE
    /\ st_scans' = 0
    /\ st_pc' = "wait"
    /\ UNCHANGED <<sips, wait_for_transfer_to_appear_waits, st_name, st_result,
                   st_exc, lk_result, approved, st_dir_added>>
    /\ UNCHANGED <<driver_vars, start_others>>

\* a wait that compares the counter with <= instead of <
poll_outcome_late(found, waits) ==
    IF ~not_uuid(found[1]) THEN "found"
    ELSE IF waits + 1 <= wait_for_transfer_to_appear_max_waits THEN "again"
    ELSE "give_up"

\* what one level of wait_for_transfer_to_appear does with its scan: "found",
\* "again" (sleep and recurse) or "give_up" (reset the counter, None, None)
poll_outcome(found, waits) ==
    IF ~not_uuid(found[1]) THEN "found"
    ELSE IF waits + 1 < wait_for_transfer_to_appear_max_waits THEN "again"
    ELSE "give_up"

\* one level of wait_for_transfer_to_appear, called by start_transfer
\* (st_pc = "wait") or by the test (st_pc = "lookup")
wait_for_transfer_to_appear_poll ==
    /\ st_pc \in {"wait", "lookup"}
    /\ LET found == scan_transfers(sips, st_name)
           o == poll_outcome(found, wait_for_transfer_to_appear_waits)
           ret == IF o = "found" THEN found ELSE <<None, None>>
       IN  /\ wait_for_transfer_to_appear_waits' =
                  CASE o = "found" -> wait_for_transfer_to_appear_waits
                    [] o = "again" -> wait_for_transfer_to_appear_waits + 1
                    [] OTHER -> 0
           /\ IF o = "again"
              THEN UNCHANGED <<st_pc, st_result, lk_result>>
              ELSE IF st_pc = "wait"
              THEN /\ st_pc' = "approve"
                   /\ st_result' = ret
                   /\ UNCHANGED lk_result
              ELSE /\ st_pc' = "looked"
                   /\ lk_result' = ret
                   /\ UNCHANGED st_result
    /\ st_scans' = st_scans + 1
    /\ UNCHANGED <<sips, st_name, st_exc, approved, st_dir_added, st_started>>
    /\ UNCHANGED <<driver_vars, start_others>>

\* approve_transfer(transfer_div_elem) and the return of start_transfer
approve_transfer ==
    /\ st_pc = "approve"
    /\ IF st_result[2] = None
       THEN /\ st_pc' = "raised"
            /\ st_exc' = "AttributeError"
            /\ UNCHANGED approved
       ELSE /\ st_pc' = "returned"
            /\ approved' = approved \cup {st_result[2]}
            /\ UNCHANGED st_exc
    /\ UNCHANGED <<sips, wait_for_transfer_to_appear_waits, st_name, st_result,
                   lk_result, st_dir_added, st_started, st_scans>>
    /\ UNCHANGED <<driver_vars, start_others>>

\* the test looks the unit up by its name
lookup_call ==
    /\ st_pc = "returned"
    /\ st_pc' = "lookup"
    /\ st_scans' = 0
    /\ UNCHANGED <<sips, wait_for_transfer_to_appear_waits, st_name, st_result,
                   st_exc, lk_result, approved, st_dir_added, st_started>>
    /\ UNCHANGED <<driver_vars, start_others>>

\* the rows listed before the unit is started: none, or one older unit
OldRows ==
    {<<>>} \cup {<<SipRow(2, n, OldUuid, narrow, TRUE)>> :
                    n \in TransferNames, narrow \in BOOLEAN}

InitStart ==
    /\ sips \in OldRows
    /\ wait_for_transfer_to_appear_waits
          \in {0, wait_for_transfer_to_appear_max_waits - 2}
    /\ st_pc = "idle"
    /\ st_name = <<>>
    /\ st_result = <<None, None>>
    /\ st_exc = "none"
    /\ lk_result = <<None, None>>
    /\ approved = {}
    /\ st_dir_added = FALSE
    /\ st_started = FALSE
    /\ st_scans = 0
    /\ driver = 1
    /\ all_drivers = <<1>>
    /\ open_drivers = {1}
    /\ current_url = <<BlankUrl>>
    /\ session \in {{}, {1}}
    /\ DomInit
    /\ ScrapeIdle
    /\ NavIdle
    /\ StaleIdle
    /\ JobIdle
    /\ RmIdle
    /\ WaitIdle
    /\ ParseIdle
    /\ LoginIdle
    /\ WinIdle
    /\ PollIdle
    /\ MoreIdle

NextStart ==
    \/ env_unit_appears
    \/ env_uuid_filled
    \/ start_transfer_call
    \/ add_transfer_directory
    \/ click_start_transfer_button
    \/ wait_for_transfer_to_appear_poll
    \/ approve_transfer
    \/ lookup_call

SpecStart == InitStart /\ [][NextStart]_vars

\* C11: when start_transfer has returned a UUID, the lookup by name that
\* follows returns a non-empty UUID, the same one.
C11_RoundTrip ==
    (st_pc = "looked" /\ ~not_uuid(st_result[1]))
        => (~not_uuid(lk_result[1]) /\ lk_result[1] = st_result[1])

\* the unit started was listed, start_transfer returned its UUID and the
\* lookup has returned
C11_Witness ==
    /\ st_pc = "looked"
    /\ st_result[1] = NewUuid
    /\ lk_result[1] = NewUuid

\* C12: when no unit of the name appears within the bounded number of
\* polls, start_transfer returns a "not found" value and does not raise.
C12_AsStated ==
    ~(st_pc = "raised" /\ st_started /\ st_result = <<None, None>>)

(***************************************************************************)
(* wait_for_existence and wait_for_presence, wait_for_visibility,          *)
(* wait_for_invisibility.  Time passes with the polls of WebDriverWait; the *)
(* element the selector denotes is absent, hidden or visible and changes   *)
(* as the dashboard pleases.                                               *)
(***************************************************************************)
ElemStates == {"absent", "hidden", "visible"}

WaitKinds == {"presence", "visibility", "invisibility"}

\* self.timeout, in seconds: the timeout of a wait called without one
self_timeout == 5

\* the polls WebDriverWait makes in a second (one every 0.5 s)
PollsPerSecond == 2

\* the expected condition of each wait, evaluated on the page
existence_detector(kind, es) ==
    CASE kind = "presence" -> es # "absent"
      [] kind = "visibility" -> es = "visible"
      [] OTHER -> es # "visible"

\* a wait that lets the TimeoutException of WebDriverWait.until through
on_timeout_raise == "raise"

\* except TimeoutException: pass
on_timeout == "pass"

env_elem_changes ==
    /\ \E es \in ElemStates \ {elem_state} : elem_state' = es
    /\ UNCHANGED <<we_pc, we_kind, we_timeout, we_elapsed, we_exc>>
    /\ UNCHANGED wait_others

\* timeout 0 stands for a call without timeout (None)
wait_for_existence_call ==
    /\ we_pc \in {"idle", "returned"}
    /\ \E kind \in WaitKinds : we_kind' = kind
    /\ \E t \in 0..MaxTimeout : we_timeout' = IF t = 0 THEN self_timeout ELSE t
    /\ we_elapsed' = 0
    /\ we_exc' = "none"
    /\ we_pc' = "polling"
    /\ UNCHANGED elem_state
    /\ UNCHANGED wait_others

\* one poll of WebDriverWait(self.driver, timeout).until(element_exists)
wait_for_existence_poll ==
    /\ we_pc = "polling"
    /\ IF existence_detector(we_kind, elem_state)
       THEN /\ we_pc' = "returned"
            /\ UNCHANGED <<we_elapsed, we_exc>>
       ELSE IF we_elapsed < we_timeout * PollsPerSecond
       THEN /\ we_elapsed' = we_elapsed + 1
            /\ UNCHANGED <<we_pc, we_exc>>
       ELSE IF on_timeout = "pass"
       THEN /\ we_pc' = "returned"
            /\ UNCHANGED <<we_elapsed, we_exc>>
       ELSE /\ we_pc' = "raised"
            /\ we_exc' = "TimeoutException"
            /\ UNCHANGED we_elapsed
    /\ UNCHANGED <<elem_state, we_kind, we_timeout>>
    /\ UNCHANGED wait_others

InitWait ==
    /\ elem_state \in ElemStates
    /\ we_pc = "idle"
    /\ we_kind = "presence"
    /\ we_timeout = 0
    /\ we_elapsed = 0
    /\ we_exc = "none"
    /\ DriverInit
    /\ DomInit
    /\ ScrapeIdle
    /\ NavIdle
    /\ StaleIdle
    /\ JobIdle
    /\ RmIdle
    /\ StartIdle
    /\ ParseIdle
    /\ LoginIdle
    /\ WinIdle
    /\ PollIdle
    /\ MoreIdle

NextWait ==
    \/ env_elem_changes
    \/ wait_for_existence_call
    \/ wait_for_existence_poll

SpecWait == InitWait /\ [][NextWait]_vars

\* a step of the wait itself
WaitStep == we_pc' # we_pc \/ we_elapsed' # we_elapsed

\* C13: a wait never raises a timeout: it returns as soon as a poll finds
\* its condition true, and it returns normally, without an exception, when
\* the timeout has passed with the condition still false.
C13_SilentTimeout ==
    /\ [](we_pc # "raised" /\ we_exc = "none")
    /\ [][(we_pc = "polling" /\ WaitStep
              /\ existence_detector(we_kind, elem_state))
             => we_pc' = "returned"]_vars
    /\ [][(we_pc = "polling" /\ WaitStep
              /\ ~existence_detector(we_kind, elem_state)
              /\ we_elapsed >= we_timeout * PollsPerSecond)
             => (we_pc' = "returned" /\ we_exc' = "none")]_vars

\* a wait for visibility has returned after its timeout although the
\* element is not visible
C13_Witness ==
    /\ we_pc = "returned"
    /\ we_kind = "visibility"
    /\ we_elapsed = we_timeout * PollsPerSecond
    /\ ~existence_detector(we_kind, elem_state)

(***************************************************************************)
(* The row handlers applied to the text of one cell.  The texts are those  *)
(* of a command with at most MaxArgs quoted arguments, and those of one or *)
(* two "key: value" pairs, in parentheses or not, on one line or on two.   *)
(***************************************************************************)
CommandPrefix == <<"C", "o", "m", "m", "a", "n", "d", ":">>

Commands == {<<"c", "o", "n", "v", "e", "r", "t">>, <<"l", "s">>}

Args == {<<"a", " ", "b">>, <<"c">>, <<"t", ":", "1">>, <<"a", " ", " ", "b">>}

ArgLists == UNION {[1..n -> Args] : n \in 0..MaxArgs}

Quoted(args) ==
    join(<<" ">>, [k \in DOMAIN args |-> <<"\"">> \o args[k] \o <<"\"">>])

CommandText(command, args) ==
    CommandPrefix \o <<" ">> \o command
        \o (IF args = <<>> THEN <<>> ELSE <<" ">> \o Quoted(args))

FileUuids == {<<"1", "2", "3", "4">>, <<"5">>}

FileNames == {<<"f", "o", "o", ".", "t", "x", "t">>, <<"b", " ", "c">>, <<"a", ":", "b">>}

Pair(key, val, paren) ==
    IF paren THEN <<"(">> \o key \o <<":", " ">> \o val \o <<")">>
    ELSE key \o <<":", " ">> \o val

K_FileUuid == <<"F", "i", "l", "e", " ", "U", "U", "I", "D">>

K_FileName == <<"F", "i", "l", "e", " ", "N", "a", "m", "e">>

HeaderCellText(u, f, paren, sep) ==
    Pair(K_FileUuid, u, paren) \o sep \o Pair(K_FileName, f, paren)

Seps == {<<"\n">>, <<" ">>}

CommandTexts == {CommandText(c, a) : c \in Commands, a \in ArgLists}

HeaderTexts ==
    {HeaderCellText(u, f, paren, sep) :
        u \in FileUuids, f \in FileNames, paren \in BOOLEAN, sep \in Seps}
    \cup {Pair(K_FileUuid, u, paren) : u \in FileUuids, paren \in BOOLEAN}

apply_header_row ==
    /\ parse_pc = "ready"
    /\ parse_kind = "header"
    /\ parse_out' = process_task_header_row([text |-> cell_text], EmptyDict)
    /\ parse_pc' = "done"
    /\ UNCHANGED <<cell_text, parse_kind>>
    /\ UNCHANGED parse_others

apply_command_row ==
    /\ parse_pc = "ready"
    /\ parse_kind = "command"
    /\ parse_out' = process_task_command_row([text |-> cell_text], EmptyDict)
    /\ parse_pc' = "done"
    /\ UNCHANGED <<cell_text, parse_kind>>
    /\ UNCHANGED parse_others

InitParse ==
    /\ \/ parse_kind = "header" /\ cell_text \in HeaderTexts
       \/ parse_kind = "command" /\ cell_text \in CommandTexts
    /\ parse_out = None
    /\ parse_pc = "ready"
    /\ DriverInit
    /\ DomInit
    /\ ScrapeIdle
    /\ NavIdle
    /\ StaleIdle
    /\ JobIdle
    /\ RmIdle
    /\ StartIdle
    /\ WaitIdle
    /\ LoginIdle
    /\ WinIdle
    /\ PollIdle
    /\ MoreIdle

NextParse ==
    \/ apply_header_row
    \/ apply_command_row

SpecParse == InitParse /\ [][NextParse]_vars

\* C14: the text "Command: <command> <quoted arguments>" gives the record
\* the command and the ordered list of the arguments, whatever the command
\* and the arguments are.
C14_AsStated ==
    (parse_pc = "done" /\ parse_kind = "command")
        => \A c \in Commands, a \in ArgLists :
              cell_text = CommandText(c, a)
                  => /\ parse_out.exc = "none"
                     /\ parse_out.val[k_command] = c
                     /\ a # <<>> => parse_out.val[k_arguments] = a

HeaderDict(u, f) == DictSet(DictSet(EmptyDict, k_file_uuid, u), k_file_name, f)

\* C15, as stated: the two pairs on one line, separated by a space, give
\* the two fields.
C15_AsStated ==
    (parse_pc = "done"
        /\ cell_text = HeaderCellText(<<"1", "2", "3", "4">>, <<"f", "o", "o", ".", "t", "x", "t">>, TRUE, <<" ">>))
        => parse_out = Ok(HeaderDict(<<"1", "2", "3", "4">>, <<"f", "o", "o", ".", "t", "x", "t">>))

\* C15, amended: with one pair per line, each pair with one colon, in
\* parentheses or not, the record gets one field per pair, the key in lower
\* case with "_" for each space; a line with more than one colon (a value
\* with a colon, or the two pairs on one line) raises ValueError.
C15_OnePairPerLine ==
    (parse_pc = "done" /\ parse_kind = "header")
        => \A u \in FileUuids, f \in FileNames, paren \in BOOLEAN :
              /\ cell_text = HeaderCellText(u, f, paren, <<"\n">>)
                    => parse_out = IF find(f, <<":">>) = 0
                                   THEN Ok(HeaderDict(u, f))
                                   ELSE Raise("ValueError")
              /\ cell_text = HeaderCellText(u, f, paren, <<" ">>)
                    => parse_out = Raise("ValueError")
              /\ cell_text = Pair(K_FileUuid, u, paren)
                    => parse_out = Ok(DictSet(EmptyDict, k_file_uuid, u))

\* the two pairs of the example, one per line, were parsed
C15_Witness ==
    /\ parse_pc = "done"
    /\ cell_text = HeaderCellText(<<"1", "2", "3", "4">>, <<"f", "o", "o", ".", "t", "x", "t">>, TRUE, <<"\n">>)
    /\ parse_out = Ok(HeaderDict(<<"1", "2", "3", "4">>, <<"f", "o", "o", ".", "t", "x", "t">>))

(***************************************************************************)
(* The navigations of the workflow operations.  The session of a browser   *)
(* may expire between two operations; a page of the dashboard asked for    *)
(* without a session is answered by the login page.                        *)
(***************************************************************************)
get_aip_preview_url == <<"/ingest/preview/aip/", "u1">>

\* the URLs asked for with "get, login if redirected, get": navigate,
\* navigate_to_transfer_tab, remove_all_ingests, get_sip_uuid, get_mets
NavigateUrls == {get_transfer_url, get_ingest_url, get_aip_preview_url}

env_session_expires ==
    /\ nv_pc \in {"idle", "done"}
    /\ driver \in session
    /\ session' = session \ {driver}
    /\ UNCHANGED <<driver, all_drivers, open_drivers, current_url>>
    /\ UNCHANGED login_vars
    /\ UNCHANGED login_others

\* self.driver.get(url); if self.driver.current_url != url: self.login();
\* self.driver.get(url)
navigate ==
    /\ nv_pc \in {"idle", "done"}
    /\ \E url \in NavigateUrls :
          LET redirected == driver_get(session, driver, url) # url
              ses == IF redirected THEN login(session, driver) ELSE session
          IN  /\ nv_url' = url
              /\ nv_logged_in' = redirected
              /\ session' = ses
              /\ current_url' =
                     [current_url EXCEPT ![driver] = driver_get(ses, driver, url)]
    /\ nv_op' = "navigate"
    /\ nv_pc' = "done"
    /\ UNCHANGED <<driver, all_drivers, open_drivers>>
    /\ UNCHANGED login_others

\* expose_job: if self.driver.current_url != unit_url:
\*                 self.driver.get(unit_url)
expose_job_get ==
    /\ nv_pc \in {"idle", "done"}
    /\ \E unit_url \in {get_transfer_url, get_ingest_url} :
          /\ nv_url' = unit_url
          /\ current_url' =
                 IF current_url[driver] # unit_url
                 THEN [current_url EXCEPT
                          ![driver] = driver_get(session, driver, unit_url)]
                 ELSE current_url
    /\ nv_logged_in' = FALSE
    /\ nv_op' = "expose_job"
    /\ nv_pc' = "done"
    /\ UNCHANGED <<driver, all_drivers, open_drivers, session>>
    /\ UNCHANGED login_others

\* parse_tasks_table: a new driver, self.login() as its URL is not
\* tasks_url, self.driver.get(tasks_url)
parse_tasks_table_get ==
    /\ nv_pc \in {"idle", "done"}
    /\ Len(all_drivers) < MaxDrivers
    /\ LET d == Len(all_drivers) + 1
           url == get_tasks_url(1)
           redirected == BlankUrl # url
           ses == IF redirected THEN login(session, d) ELSE session
       IN  /\ driver' = d
           /\ all_drivers' = Append(all_drivers, d)
           /\ open_drivers' = open_drivers \cup {d}
           /\ session' = ses
           /\ current_url' =
                  [x \in 1..d |-> IF x = d THEN driver_get(ses, d, url)
                                  ELSE current_url[x]]
           /\ nv_url' = url
           /\ nv_logged_in' = redirected
    /\ nv_op' = "parse_tasks_table"
    /\ nv_pc' = "done"
    /\ UNCHANGED login_others

InitLogin ==
    /\ LoginIdle
    /\ driver = 1
    /\ all_drivers = <<1>>
    /\ open_drivers = {1}
    /\ current_url = <<BlankUrl>>
    /\ session = {}
    /\ DomInit
    /\ ScrapeIdle
    /\ NavIdle
    /\ StaleIdle
    /\ JobIdle
    /\ RmIdle
    /\ StartIdle
    /\ WaitIdle
    /\ ParseIdle
    /\ WinIdle
    /\ PollIdle
    /\ MoreIdle

NextLogin ==
    \/ env_session_expires
    \/ navigate
    \/ expose_job_get
    \/ parse_tasks_table_get

SpecLogin == InitLogin /\ [][NextLogin]_vars

\* C16: a navigation of a workflow operation that is answered by another
\* URL than the one asked for is followed by the login and by the same
\* navigation again, so that the operation goes on at the URL it asked for.
C16_AsStated ==
    nv_pc = "done"
        => /\ current_url[driver] = nv_url
           /\ driver \in session

(***************************************************************************)
(* The browsers and their windows.  A driver is a browser with a list of   *)
(* window handles and a current window; close() closes the current window  *)
(* and leaves the driver switched to no window (0), and fails when there   *)
(* is no current window.  A click on a file of the AIP browser makes the   *)
(* dashboard open the file in a new window, some time after the click.     *)
(***************************************************************************)
Range(q) == {q[k] : k \in 1..Len(q)}

Remove(q, h) == SelectSeq(q, LAMBDA x : x # h)

NewHandle(q) ==
    IF q = <<>> THEN 1 ELSE 1 + CHOOSE h \in Range(q) : \A g \in Range(q) : h >= g

has_current_window(d) == current_window[d] \in Range(window_handles[d])

env_window_opens ==
    /\ window_requested # 0
    /\ td_pc = "idle"
    /\ window_handles[window_requested] # <<>>
    /\ window_handles' =
          [window_handles EXCEPT
              ![window_requested] = Append(@, NewHandle(@))]
    /\ window_requested' = 0
    /\ UNCHANGED <<current_window, gm_pc, gm_original, gm_new, mets, gm_exc,
                   td_pc, td_todo, td_exc>>
    /\ UNCHANGED <<driver_vars, win_others>>

\* the window the driver is switched to at the end of get_mets, had it
\* stayed on the new window
stay_on_new_window(original_window_handle, new_window_handle) ==
    new_window_handle

\* self.driver.switch_to.window(original_window_handle)
switch_back_to(original_window_handle, new_window_handle) ==
    original_window_handle

gm_raise(e) ==
    /\ gm_pc' = "raised"
    /\ gm_exc' = e

\* get_mets up to the click on the METS file: get_sip_uuid when no sip_uuid
\* is given (the current window is closed and a new driver takes over), the
\* navigations, the click
get_mets_call ==
    /\ gm_pc \in {"idle", "returned"}
    /\ td_pc = "idle"
    /\ window_requested = 0
    /\ \E with_sip_uuid \in BOOLEAN :
          IF with_sip_uuid
          THEN IF ~has_current_window(driver)
               THEN /\ gm_raise("WebDriverException")
                    /\ UNCHANGED <<driver_vars, window_handles, current_window,
                                   window_requested>>
               ELSE /\ Len(window_handles[driver]) < MaxWindows
                    /\ session' = login(session, driver)
                    /\ current_url' =
                          [current_url EXCEPT ![driver] = get_aip_preview_url]
                    /\ window_requested' = driver
                    /\ gm_pc' = "clicked"
                    /\ UNCHANGED <<driver, all_drivers, open_drivers,
                                   window_handles, current_window, gm_exc>>
          ELSE IF ~has_current_window(driver)
               THEN /\ gm_raise("WebDriverException")
                    /\ UNCHANGED <<driver_vars, window_handles, current_window,
                                   window_requested>>
               ELSE /\ Len(all_drivers) < MaxDrivers
                    /\ LET d == Len(all_drivers) + 1
                           closed == [window_handles EXCEPT
                                         ![driver] =
                                             Remove(@, current_window[driver])]
                       IN  /\ driver' = d
                           /\ all_drivers' = Append(all_drivers, d)
                           /\ window_handles' = Append(closed, <<1>>)
                           /\ current_window' =
                                  Append([current_window EXCEPT ![driver] = 0],
                                         1)
                           /\ open_drivers' =
                                  {x \in 1..d : window_handles'[x] # <<>>}
                           /\ session' = login(session, d)
                           /\ current_url' =
                                  Append(current_url, get_aip_preview_url)
                           /\ window_requested' = d
                    /\ gm_pc' = "clicked"
                    /\ UNCHANGED gm_exc
    /\ UNCHANGED <<gm_original, gm_new, mets, td_pc, td_todo, td_exc>>
    /\ UNCHANGED win_others

\* wait_for_new_window() is a generator function: the call waits for
\* nothing; then window_handles[0] and window_handles[1]
get_mets_handles ==
    /\ gm_pc = "clicked"
    /\ IF Len(window_handles[driver]) < 2
       THEN /\ gm_raise("IndexError")
            /\ UNCHANGED <<gm_original, gm_new>>
       ELSE /\ gm_original' = window_handles[driver][1]
            /\ gm_new' = window_handles[driver][2]
            /\ gm_pc' = "handles"
            /\ UNCHANGED gm_exc
    /\ UNCHANGED <<window_handles, current_window, window_requested, mets,
                   td_pc, td_todo, td_exc>>
    /\ UNCHANGED <<driver_vars, win_others>>

\* switch_to.window(new_window_handle); mets = self.driver.page_source
get_mets_read ==
    /\ gm_pc = "handles"
    /\ current_window' = [current_window EXCEPT ![driver] = gm_new]
    /\ mets' = <<"page_source", gm_new>>
    /\ gm_pc' = "read"
    /\ UNCHANGED <<window_handles, window_requested, gm_original, gm_new,
                   gm_exc, td_pc, td_todo, td_exc>>
    /\ UNCHANGED <<driver_vars, win_others>>

\* switch_to.window(original_window_handle); return
get_mets_return ==
    /\ gm_pc = "read"
    /\ current_window' =
          [current_window EXCEPT ![driver] = switch_back_to(gm_original, gm_new)]
    /\ gm_pc' = "returned"
    /\ UNCHANGED <<window_handles, window_requested, gm_original, gm_new, mets,
                   gm_exc, td_pc, td_todo, td_exc>>
    /\ UNCHANGED <<driver_vars, win_others>>

\* parse_tasks_table: self.driver = self.get_driver() ... self.driver.close()
parse_tasks_table_driver ==
    /\ gm_pc \in {"idle", "returned", "raised"}
    /\ td_pc = "idle"
    /\ Len(all_drivers) < MaxDrivers
    /\ LET d == Len(all_drivers) + 1
       IN  /\ driver' = d
           /\ all_drivers' = Append(all_drivers, d)
           /\ window_handles' = Append(window_handles, <<>>)
           /\ current_window' = Append(current_window, 0)
           /\ session' = login(session, d)
           /\ current_url' = Append(current_url, get_tasks_url(1))
    /\ UNCHANGED <<open_drivers, window_requested, gm_pc, gm_original, gm_new,
                   mets, gm_exc, td_pc, td_todo, td_exc>>
    /\ UNCHANGED win_others

\* tearDown: self.driver.window_handles, which a driver without a window
\* answers by an exception or by an empty list
tearDown_call ==
    /\ td_pc = "idle"
    /\ gm_pc \in {"idle", "returned", "raised"}
    /\ IF window_handles[driver] # <<>>
       THEN /\ td_pc' = "windows"
            /\ td_todo' = window_handles[driver]
            /\ UNCHANGED td_exc
       ELSE \/ /\ td_pc' = "raised"
               /\ td_exc' = "WebDriverException"
               /\ UNCHANGED td_todo
            \/ /\ td_pc' = "windows"
               /\ td_todo' = <<>>
               /\ UNCHANGED td_exc
    /\ UNCHANGED <<window_handles, current_window, window_requested, gm_pc,
                   gm_original, gm_new, mets, gm_exc>>
    /\ UNCHANGED <<driver_vars, win_others>>

\* for window_handle in ...: switch_to.window(window_handle); close()
tearDown_window ==
    /\ td_pc = "windows"
    /\ IF td_todo = <<>>
       THEN /\ td_pc' = "drivers"
            /\ td_todo' = all_drivers
            /\ UNCHANGED <<window_handles, current_window, open_drivers>>
       ELSE /\ window_handles' =
                  [window_handles EXCEPT ![driver] = Remove(@, Head(td_todo))]
            /\ current_window' = [current_window EXCEPT ![driver] = 0]
            /\ open_drivers' =
                  {x \in DOMAIN window_handles : window_handles'[x] # <<>>}
            /\ td_todo' = Tail(td_todo)
            /\ UNCHANGED td_pc
    /\ UNCHANGED <<window_requested, gm_pc, gm_original, gm_new, mets, gm_exc,
                   td_exc>>
    /\ UNCHANGED <<driver, all_drivers, current_url, session, win_others>>

\* for driver in self.all_drivers: try: driver.close() except: pass
tearDown_driver ==
    /\ td_pc = "drivers"
    /\ IF td_todo = <<>>
       THEN /\ td_pc' = "done"
            /\ UNCHANGED <<td_todo, window_handles, current_window,
                           open_drivers>>
       ELSE LET d == Head(td_todo)
            IN  /\ td_todo' = Tail(td_todo)
                /\ UNCHANGED td_pc
                /\ IF has_current_window(d)
                   THEN /\ window_handles' =
                              [window_handles EXCEPT
                                  ![d] = Remove(@, current_window[d])]
                        /\ current_window' = [current_window EXCEPT ![d] = 0]
                        /\ open_drivers' =
                              {x \in DOMAIN window_handles :
                                  window_handles'[x] # <<>>}
                   ELSE UNCHANGED <<window_handles, current_window,
                                    open_drivers>>
    /\ UNCHANGED <<window_requested, gm_pc, gm_original, gm_new, mets, gm_exc,
                   td_exc>>
    /\ UNCHANGED <<driver, all_drivers, current_url, session, win_others>>

\* after setUp: one driver with one window
InitWindows ==
    /\ window_handles = <<<<1>>>>
    /\ current_window = <<1>>
    /\ window_requested = 0
    /\ gm_pc = "idle"
    /\ gm_original = 0
    /\ gm_new = 0
    /\ mets = None
    /\ gm_exc = "none"
    /\ td_pc = "idle"
    /\ td_todo = <<>>
    /\ td_exc = "none"
    /\ driver = 1
    /\ all_drivers = <<1>>
    /\ open_drivers = {1}
    /\ current_url = <<BlankUrl>>
    /\ session = {}
    /\ DomInit
    /\ ScrapeIdle
    /\ NavIdle
    /\ StaleIdle
    /\ JobIdle
    /\ RmIdle
    /\ StartIdle
    /\ WaitIdle
    /\ ParseIdle
    /\ LoginIdle
    /\ PollIdle
    /\ MoreIdle

NextWindows ==
    \/ env_window_opens
    \/ get_mets_call
    \/ get_mets_handles
    \/ get_mets_read
    \/ get_mets_return
    \/ parse_tasks_table_driver
    \/ tearDown_call
    \/ tearDown_window
    \/ tearDown_driver

SpecWindows == InitWindows /\ [][NextWindows]_vars

\* C17: when get_mets returns after it has read the new window, the driver
\* is switched to the original window, the first of its handles.
C17_SwitchedBack ==
    [][(gm_pc = "read" /\ gm_pc' = "returned")
          => /\ current_window'[driver'] = gm_original
             /\ gm_original = window_handles[driver][1]
             /\ gm_original # gm_new
             /\ mets = <<"page_source", gm_new>>]_vars

\* get_mets has returned the source of the new window and the driver is on
\* the original one
C17_Witness ==
    /\ gm_pc = "returned"
    /\ mets = <<"page_source", gm_new>>
    /\ gm_new # gm_original
    /\ current_window[driver] = gm_original

\* C18: once get_mets has returned, the window it read is closed.
C18_AsStated ==
    gm_pc = "returned" => gm_new \notin Range(window_handles[driver])

\* C19: once tearDown has completed, no window of any driver of the
\* session is open.
C19_AsStated ==
    td_pc = "done" => \A d \in DOMAIN window_handles : window_handles[d] = <<>>

(***************************************************************************)
(* The waits for a job: wait_for_microservice_visibility (at the end of    *)
(* expose_job) and then get_job_uuid (in parse_job).  Both poll by calling *)
(* themselves, through recurse_on_stale: every further poll adds the frame *)
(* of the wrapper and the frame of the function to the interpreter's       *)
(* stack, which holds at most recursion_limit frames.  Here the group is   *)
(* rendered; the job row is rendered at some time, and ends at some time.  *)
(***************************************************************************)
\* sys.getrecursionlimit() of the interpreter
recursion_limit == 1000

\* the frames one more poll takes: wrapper and function
FramesPerPoll == 2

env_job_rendered ==
    /\ wj_pc \in {"visibility", "job_uuid"}
    /\ jobs = <<>>
    /\ jobs' = <<[name |-> MsName \o <<" ">>,
                  status |-> S_Executing \o <<" ">>,
                  title |-> JobTitle(1)]>>
    /\ UNCHANGED <<group_present, gj_pc, gj_elem, gj_result, gj_exc, gj_polls,
                   gj_results>>
    /\ UNCHANGED <<dom_vars, poll_vars, poll_others>>

env_job_terminal ==
    /\ wj_pc \in {"visibility", "job_uuid"}
    /\ jobs # <<>>
    /\ ~is_terminal(strip(jobs[1].status))
    /\ \E out \in TerminalOutputs : jobs' = [jobs EXCEPT ![1].status = out]
    /\ UNCHANGED <<group_present, gj_pc, gj_elem, gj_result, gj_exc, gj_polls,
                   gj_results>>
    /\ UNCHANGED <<dom_vars, poll_vars, poll_others>>

\* the call of the function from itself: a RecursionError when the stack is
\* full
poll_again ==
    IF frames + FramesPerPoll > recursion_limit
    THEN /\ wj_pc' = "raised"
         /\ wj_exc' = "RecursionError"
         /\ frames' = 0
         /\ UNCHANGED wj_result
    ELSE /\ frames' = frames + FramesPerPoll
         /\ UNCHANGED <<wj_pc, wj_result, wj_exc>>

\* expose_job reaches wait_for_microservice_visibility
wait_for_job_call ==
    /\ wj_pc = "idle"
    /\ wj_pc' = "visibility"
    /\ frames' = FramesPerPoll
    /\ UNCHANGED <<wj_result, wj_exc>>
    /\ UNCHANGED <<dom_vars, job_vars, poll_others>>

\* one level of wait_for_microservice_visibility; when it returns, parse_job
\* calls get_job_uuid
wait_for_microservice_visibility_poll ==
    /\ wj_pc = "visibility"
    /\ IF ~group_present
       THEN /\ wj_pc' = "raised"
            /\ wj_exc' = "AttributeError"
            /\ frames' = 0
            /\ UNCHANGED wj_result
       ELSE IF first_match(jobs, MsName) # 0
       THEN /\ wj_pc' = "job_uuid"
            /\ frames' = FramesPerPoll
            /\ UNCHANGED <<wj_result, wj_exc>>
       ELSE poll_again
    /\ UNCHANGED <<dom_vars, job_vars, poll_others>>

\* one level of get_job_uuid
get_job_uuid_poll ==
    /\ wj_pc = "job_uuid"
    /\ LET k == first_match(jobs, MsName)
       IN  IF ~group_present
           THEN /\ wj_pc' = "raised"
                /\ wj_exc' = "AttributeError"
                /\ frames' = 0
                /\ UNCHANGED wj_result
           ELSE IF k = 0
           THEN /\ wj_pc' = "returned"
                /\ wj_result' = <<None, None>>
                /\ frames' = 0
                /\ UNCHANGED wj_exc
           ELSE IF is_terminal(strip(jobs[k].status))
           THEN /\ wj_pc' = "returned"
                /\ wj_result' = <<strip(jobs[k].title), strip(jobs[k].status)>>
                /\ frames' = 0
                /\ UNCHANGED wj_exc
           ELSE poll_again
    /\ UNCHANGED <<dom_vars, job_vars, poll_others>>

InitPoll ==
    /\ PollIdle
    /\ group_present = TRUE
    /\ jobs = <<>>
    /\ gj_pc = "idle"
    /\ gj_elem = NoElem
    /\ gj_result = <<None, None>>
    /\ gj_exc = "none"
    /\ gj_polls = 0
    /\ gj_results = <<>>
    /\ DriverInit
    /\ DomInit
    /\ ScrapeIdle
    /\ NavIdle
    /\ StaleIdle
    /\ RmIdle
    /\ StartIdle
    /\ WaitIdle
    /\ ParseIdle
    /\ LoginIdle
    /\ WinIdle
    /\ MoreIdle

NextPoll ==
    \/ env_job_rendered
    \/ env_job_terminal
    \/ wait_for_job_call
    \/ wait_for_microservice_visibility_poll
    \/ get_job_uuid_poll

SpecPoll == InitPoll /\ [][NextPoll]_vars

\* C20: the waits for a job have no cap of their own: they go on polling
\* for as long as the job is not rendered or not in a terminal status, and
\* end only by returning the terminal status of the job.
C20_AsStated ==
    wj_pc \in {"returned", "raised"}
        => /\ wj_pc = "returned"
           /\ wj_result[2] \in TerminalOutputs
           /\ jobs # <<>>
           /\ wj_result[2] = strip(jobs[1].status)

(***************************************************************************)
(* expose_job.  The unit's micro-service group is rendered at some time    *)
(* and stays; its job rows are rendered one after the other; its content   *)
(* region is displayed or not, and a click on its header toggles that.     *)
(* The text of an element that is not displayed reads as the empty string, *)
(* so the stage name of a job row is read only while the content region is *)
(* displayed.  The page may be rendered again at any time.  The recursion  *)
(* of wait_for_microservice_visibility is that of SpecPoll; here a poll    *)
(* that finds nothing leaves the state as it is.                           *)
(***************************************************************************)
\* a variant that clicks the header whatever is_displayed() answered
should_click_always(visible) == TRUE

\* if not is_visible:
should_click(visible) == ~visible

\* span_elem.text.strip() == ms_name for some job row of the group
job_row_observed(js, ms_name, expanded) ==
    expanded /\ first_match(js, ms_name) # 0

ex_raise(kind) ==
    /\ ex_pc' = "raised"
    /\ ex_exc' = kind

\* the call, up to the navigation to the tab of the unit
expose_job_call ==
    /\ ex_pc \in {"idle", "returned"}
    /\ ex_calls < MaxExposeCalls
    /\ ex_calls' = ex_calls + 1
    /\ ex_clicks' = 0
    /\ \E unit_url \in {get_transfer_url, get_ingest_url} :
          current_url' =
              IF current_url[driver] # unit_url
              THEN [current_url EXCEPT
                       ![driver] = driver_get(session, driver, unit_url)]
              ELSE current_url
    /\ ex_pc' = "wait_group"
    /\ UNCHANGED <<group_expanded, ex_elem, is_visible, ex_exc>>
    /\ UNCHANGED <<driver, all_drivers, open_drivers, session>>
    /\ UNCHANGED <<dom_vars, job_vars, expose_others>>

\* one turn of the loop of wait_for_transfer_micro_service_group
wait_for_transfer_micro_service_group ==
    /\ ex_pc = "wait_group"
    /\ ex_pc' = IF group_present THEN "group_elem" ELSE "wait_group"
    /\ UNCHANGED <<group_expanded, ex_elem, is_visible, ex_exc, ex_calls,
                   ex_clicks>>
    /\ UNCHANGED <<driver_vars, dom_vars, job_vars, expose_others>>

\* get_transfer_micro_service_group_elem, before is_displayed() and before
\* click()
expose_job_group_elem ==
    /\ ex_pc \in {"group_elem", "click_elem"}
    /\ ex_elem' = IF group_present THEN [id |-> 1, ver |-> dom_version]
                  ELSE NoElem
    /\ ex_pc' = IF ex_pc = "group_elem" THEN "is_displayed" ELSE "click"
    /\ UNCHANGED <<group_expanded, is_visible, ex_exc, ex_calls, ex_clicks>>
    /\ UNCHANGED <<driver_vars, dom_vars, job_vars, expose_others>>

\* is_visible = ... .is_displayed(); if not is_visible:
expose_job_is_displayed ==
    /\ ex_pc = "is_displayed"
    /\ IF ex_elem = NoElem
       THEN ex_raise("AttributeError") /\ UNCHANGED is_visible
       ELSE IF is_stale(ex_elem)
       THEN ex_raise(Stale) /\ UNCHANGED is_visible
       ELSE /\ is_visible' = group_expanded
            /\ ex_pc' = IF should_click(group_expanded) THEN "click_elem"
                        ELSE "visibility"
            /\ UNCHANGED ex_exc
    /\ UNCHANGED <<group_expanded, ex_elem, ex_calls, ex_clicks>>
    /\ UNCHANGED <<driver_vars, dom_vars, job_vars, expose_others>>

\* ... .click() on the header of the group
expose_job_click ==
    /\ ex_pc = "click"
    /\ IF ex_elem = NoElem
       THEN ex_raise("AttributeError") /\ UNCHANGED <<group_expanded, ex_clicks>>
       ELSE IF is_stale(ex_elem)
       THEN ex_raise(Stale) /\ UNCHANGED <<group_expanded, ex_clicks>>
       ELSE /\ group_expanded' = ~group_expanded
            /\ ex_clicks' = ex_clicks + 1
            /\ ex_pc' = "visibility"
            /\ UNCHANGED ex_exc
    /\ UNCHANGED <<ex_elem, is_visible, ex_calls>>
    /\ UNCHANGED <<driver_vars, dom_vars, job_vars, expose_others>>

\* one level of wait_for_microservice_visibility, then return group_name
expose_job_wait_visibility ==
    /\ ex_pc = "visibility"
    /\ ex_pc' = IF job_row_observed(jobs, MsName, group_expanded)
                THEN "returned" ELSE "visibility"
    /\ UNCHANGED <<group_expanded, ex_elem, is_visible, ex_exc, ex_calls,
                   ex_clicks>>
    /\ UNCHANGED <<driver_vars, dom_vars, job_vars, expose_others>>

InitExpose ==
    /\ group_expanded \in BOOLEAN
    /\ ex_pc = "idle"
    /\ ex_elem = NoElem
    /\ is_visible = FALSE
    /\ ex_exc = "none"
    /\ ex_calls = 0
    /\ ex_clicks = 0
    /\ JobIdle
    /\ DriverInit
    /\ DomInit
    /\ ScrapeIdle
    /\ NavIdle
    /\ StaleIdle
    /\ RmIdle
    /\ StartIdle
    /\ WaitIdle
    /\ ParseIdle
    /\ LoginIdle
    /\ WinIdle
    /\ PollIdle
    /\ TreeIdle
    /\ NavigateIdle
    /\ ClassifyIdle

NextExpose ==
    \/ env_group_appears
    \/ env_job_appears
    \/ env_rerender_jobs
    \/ expose_job_call
    \/ wait_for_transfer_micro_service_group
    \/ expose_job_group_elem
    \/ expose_job_is_displayed
    \/ expose_job_click
    \/ expose_job_wait_visibility

SpecExpose == InitExpose /\ [][NextExpose]_vars

\* C21: expose_job clicks the header of the group at most once in a call,
\* only once the group is rendered and only while its content region is not
\* displayed, so that the click displays it; and it returns only when a job
\* row named ms_name of the group is on the page and can be read.
C21_ExpandOnce ==
    /\ [](ex_clicks <= 1)
    /\ [](ex_pc = "returned"
             => /\ group_present
                /\ group_expanded
                /\ \E k \in 1..Len(jobs) : strip(jobs[k].name) = MsName)
    /\ [][group_expanded' # group_expanded
             => /\ group_present
                /\ ~group_expanded
                /\ ex_clicks = 0
                /\ ex_clicks' = 1]_vars

C21_Witness ==
    /\ ex_pc = "returned"
    /\ ex_calls = 2
    /\ ex_clicks = 0
    /\ dom_version > 0

\* C24: the retry counters of the navigation are 0 whenever no navigation
\* call is in progress, whether the last call returned or raised, so that
\* every top-level call has its 5 attempts.
C24_AsStated ==
    nav_pc \in {"idle", "returned", "raised"}
        => /\ click_transfer_directory_tries = 0
           /\ click_aip_directory_tries = 0

(***************************************************************************)
(* _navigate_to_transfer_directory_and_click on the file browser of the    *)
(* transfer tab.  The browser shows a tree of folders; the children of a   *)
(* folder are on the page while the folder is open, and a click on the     *)
(* icon of a folder opens it if it is closed and closes it if it is open.  *)
(* Every wait may time out on a slow page.  The calls are made one after   *)
(* the other on the same page: a further attempt of                        *)
(* navigate_to_transfer_directory_and_click, or a further directory added. *)
(***************************************************************************)
\* the folders of the transfer source, in document order: /ab, /ab/c, /b,
\* /b/c
file_tree ==
    << << <<"a", "b">> >>,
       << <<"a", "b">>, <<"c">> >>,
       << <<"b">> >>,
       << <<"b">>, <<"c">> >> >>

TreePaths ==
    {<<"b">>, <<"b", "/", "c">>, <<"/", "a", "b", "/", "c", "/">>, <<"c">>}

\* the folder a node is listed in, 0 for a node of the first level
parent_of(n) ==
    IF Len(file_tree[n]) = 1 THEN 0
    ELSE CHOOSE m \in 1..Len(file_tree) :
            file_tree[m] = SubSeq(file_tree[n], 1, Len(file_tree[n]) - 1)

in_dom(n, expanded) == parent_of(n) = 0 \/ parent_of(n) \in expanded

\* div[contains(@class, 'tree-label') and
\*     descendant::span[contains(text(), folder_text)]]
get_xpath_matches_folder_text(folder_text, label) == find(label, folder_text) # 0

\* '//' + treeitem_next_sibling.join(xtrail) matches node n: the labels of
\* n and of the folders above it match the texts of xtrail, the last text
\* against the label of n
xpath_matches(xt, n) ==
    LET p == file_tree[n]
        k == Len(xt)
    IN  /\ Len(p) >= k
        /\ \A j \in 1..k :
              get_xpath_matches_folder_text(xt[j], p[Len(p) - k + j])

\* driver.find_element_by_xpath: the first match in document order, 0 if
\* there is none
find_element_by_xpath(xt, expanded) ==
    LET ms == {n \in 1..Len(file_tree) :
                  in_dom(n, expanded) /\ xpath_matches(xt, n)}
    IN  IF ms = {} THEN 0 ELSE CHOOSE n \in ms : \A m \in ms : n <= m

\* a loop that takes the first segment for the last one
is_last_at_first(i, parts) == i = 1

\* i == len(path_parts) - 1, with indices from 1
is_last(i, parts) == i = Len(parts)

tr_path_parts == transfer_path_parts(tr_path)

tr_raise(kind) ==
    /\ tr_pc' = "raised"
    /\ tr_exc' = kind

\* xtrail = []; path = path.strip('/'); path_parts = path.split('/')
tree_call ==
    /\ tr_pc \in {"idle", "returned", "raised"}
    /\ tr_calls < MaxTreeCalls
    /\ tr_calls' = tr_calls + 1
    /\ \E p \in TreePaths : tr_path' = p
    /\ tr_i' = 1
    /\ tr_xtrail' = <<>>
    /\ tr_clicks' = <<>>
    /\ tr_exc' = "none"
    /\ tr_pc' = "wait"
    /\ UNCHANGED <<tree_expanded, tr_added>>
    /\ UNCHANGED tree_others

\* the segment is added to xtrail and the node is waited for, one second
tree_wait ==
    /\ tr_pc = "wait"
    /\ LET xt == Append(tr_xtrail, tr_path_parts[tr_i])
       IN  /\ tr_xtrail' = xt
           /\ \/ /\ find_element_by_xpath(xt, tree_expanded) # 0
                 /\ tr_pc' = "click"
                 /\ UNCHANGED tr_exc
              \/ tr_raise("TimeoutException")
    /\ UNCHANGED <<tree_expanded, tr_path, tr_i, tr_calls, tr_clicks, tr_added>>
    /\ UNCHANGED tree_others

\* the label of the last segment is clicked; the icon of any other segment
\* is clicked (click_folder)
tree_click ==
    /\ tr_pc = "click"
    /\ LET n == find_element_by_xpath(tr_xtrail, tree_expanded)
       IN  IF is_last(tr_i, tr_path_parts)
           THEN /\ tr_clicks' = Append(tr_clicks,
                       [kind |-> "label", seg |-> tr_i, node |-> n])
                /\ tr_pc' = "add"
                /\ UNCHANGED tree_expanded
           ELSE /\ tr_clicks' = Append(tr_clicks,
                       [kind |-> "icon", seg |-> tr_i, node |-> n])
                /\ tree_expanded' =
                       IF n \in tree_expanded
                       THEN {m \in tree_expanded : m # n /\ parent_of(m) # n}
                       ELSE tree_expanded \cup {n}
                /\ tr_pc' = "children"
    /\ UNCHANGED <<tr_path, tr_i, tr_xtrail, tr_exc, tr_calls, tr_added>>
    /\ UNCHANGED tree_others

\* click_folder: the wait for the children of the folder to be visible, ten
\* seconds; then the loop goes on with the next segment
tree_children ==
    /\ tr_pc = "children"
    /\ \/ /\ tr_clicks[Len(tr_clicks)].node \in tree_expanded
          /\ tr_i' = tr_i + 1
          /\ tr_pc' = "wait"
          /\ UNCHANGED tr_exc
       \/ tr_raise("TimeoutException") /\ UNCHANGED tr_i
    /\ UNCHANGED <<tree_expanded, tr_path, tr_xtrail, tr_calls, tr_clicks,
                   tr_added>>
    /\ UNCHANGED tree_others

\* click_add_button: the folder whose label was clicked is added
tree_add ==
    /\ tr_pc = "add"
    /\ tr_clicks' = Append(tr_clicks,
           [kind |-> "add", seg |-> tr_i,
            node |-> tr_clicks[Len(tr_clicks)].node])
    /\ tr_added' = Append(tr_added, file_tree[tr_clicks[Len(tr_clicks)].node])
    /\ tr_pc' = "returned"
    /\ UNCHANGED <<tree_expanded, tr_path, tr_i, tr_xtrail, tr_exc, tr_calls>>
    /\ UNCHANGED tree_others

InitTree ==
    /\ TreeIdle
    /\ ExposeIdle
    /\ NavigateIdle
    /\ ClassifyIdle
    /\ DriverInit
    /\ DomInit
    /\ ScrapeIdle
    /\ NavIdle
    /\ StaleIdle
    /\ JobIdle
    /\ RmIdle
    /\ StartIdle
    /\ WaitIdle
    /\ ParseIdle
    /\ LoginIdle
    /\ WinIdle
    /\ PollIdle

NextTree ==
    \/ tree_call
    \/ tree_wait
    \/ tree_click
    \/ tree_children
    \/ tree_add

SpecTree == InitTree /\ [][NextTree]_vars

\* C22: the clicks of an attempt are, in this order, the icon of segment 1,
\* ..., the icon of segment n-1, the label of segment n and "Add"; the loop
\* goes from a segment to the next only after the icon of the segment was
\* clicked and its children were seen open; an attempt that returns has
\* clicked "Add" exactly once, as its last click.
C22_InPathOrder ==
    /\ [](LET n == Len(tr_path_parts)
          IN  /\ Len(tr_clicks) <= n + 1
              /\ \A k \in 1..Len(tr_clicks) :
                    /\ tr_clicks[k].kind =
                           IF k < n THEN "icon"
                           ELSE IF k = n THEN "label" ELSE "add"
                    /\ tr_clicks[k].seg = IF k < n THEN k ELSE n
              /\ tr_pc = "returned" => Len(tr_clicks) = n + 1)
    /\ [][(tr_pc \notin {"idle", "returned", "raised"} /\ tr_i' # tr_i)
             => /\ tr_pc = "children"
                /\ tr_i' = tr_i + 1
                /\ Len(tr_clicks) = tr_i
                /\ tr_clicks[tr_i].kind = "icon"
                /\ tr_clicks[tr_i].node \in tree_expanded]_vars

C22_Witness ==
    /\ tr_pc = "returned"
    /\ Len(tr_path_parts) = 2
    /\ Len(tr_clicks) = 3
    /\ tr_clicks[3].kind = "add"

\* C23: every node whose icon or label is clicked is the node of the path
\* made of the segments up to the one at hand: its label is the segment and
\* the folders above it are the earlier segments.
C23_AsStated ==
    \A k \in 1..Len(tr_clicks) :
       tr_clicks[k].kind \in {"icon", "label"}
          => file_tree[tr_clicks[k].node]
                 = SubSeq(tr_path_parts, 1, tr_clicks[k].seg)

(***************************************************************************)
(* navigate(url), statement by statement.  The session of the browser may  *)
(* expire at any time, also between two statements of navigate.            *)
(***************************************************************************)
\* a navigate that never logs in
redirected_never(observed_url, url) == FALSE

\* if self.driver.current_url != url:
redirected(observed_url, url) == observed_url # url

\* self.driver.get(url)
navigate_get ==
    /\ ng_pc \in {"idle", "done"}
    /\ ng_calls < MaxNavigations
    /\ ng_calls' = ng_calls + 1
    /\ \E url \in NavigateUrls :
          /\ ng_url' = url
          /\ current_url' =
                 [current_url EXCEPT ![driver] = driver_get(session, driver, url)]
          /\ ng_redirected' = (driver_get(session, driver, url) # url)
    /\ ng_gets' = 1
    /\ ng_logins' = 0
    /\ ng_pc' = "if"
    /\ UNCHANGED <<driver, all_drivers, open_drivers, session>>
    /\ UNCHANGED navigate_others

\* if self.driver.current_url != url: self.login()
navigate_login ==
    /\ ng_pc = "if"
    /\ IF redirected(current_url[driver], ng_url)
       THEN /\ session' = login(session, driver)
            /\ current_url' = [current_url EXCEPT ![driver] = HomeUrl]
            /\ ng_logins' = ng_logins + 1
       ELSE UNCHANGED <<session, current_url, ng_logins>>
    /\ ng_pc' = "get"
    /\ UNCHANGED <<driver, all_drivers, open_drivers>>
    /\ UNCHANGED <<ng_url, ng_calls, ng_gets, ng_redirected>>
    /\ UNCHANGED navigate_others

\* self.driver.get(url), whether or not the login was made; return
navigate_get_again ==
    /\ ng_pc = "get"
    /\ current_url' =
           [current_url EXCEPT ![driver] = driver_get(session, driver, ng_url)]
    /\ ng_gets' = ng_gets + 1
    /\ ng_pc' = "done"
    /\ UNCHANGED <<driver, all_drivers, open_drivers, session>>
    /\ UNCHANGED <<ng_url, ng_calls, ng_logins, ng_redirected>>
    /\ UNCHANGED navigate_others

InitNavigate ==
    /\ NavigateIdle
    /\ ExposeIdle
    /\ TreeIdle
    /\ ClassifyIdle
    /\ driver = 1
    /\ all_drivers = <<1>>
    /\ open_drivers = {1}
    /\ current_url = <<BlankUrl>>
    /\ session \in {{}, {1}}
    /\ DomInit
    /\ ScrapeIdle
    /\ NavIdle
    /\ StaleIdle
    /\ JobIdle
    /\ RmIdle
    /\ StartIdle
    /\ WaitIdle
    /\ ParseIdle
    /\ LoginIdle
    /\ WinIdle
    /\ PollIdle

NextNavigate ==
    \/ env_session_expires
    \/ navigate_get
    \/ navigate_login
    \/ navigate_get_again

SpecNavigate == InitNavigate /\ [][NextNavigate]_vars

\* C25: a call of navigate(url) logs in exactly when its first driver.get
\* was answered by another URL than url, at most once; the login is
\* followed by one more driver.get(url), after which the call returns
\* whatever URL the browser is at, without another login.
C25_LoginOnce ==
    /\ [](/\ ng_logins <= 1
          /\ ng_gets <= 2
          /\ ng_pc \in {"get", "done"} => (ng_logins = 1 <=> ng_redirected)
          /\ ng_pc = "done" => ng_gets = 2)
    /\ [][ng_logins' = ng_logins + 1 => (ng_pc = "if" /\ ng_pc' = "get")]_vars
    /\ [][ng_pc = "get" /\ ng_pc' # "get"
             => /\ ng_pc' = "done"
                /\ ng_gets' = ng_gets + 1
                /\ ng_logins' = ng_logins
                /\ session' = session]_vars

\* the login was made, and the second driver.get was redirected as well
C25_Witness ==
    /\ ng_pc = "done"
    /\ ng_logins = 1
    /\ ng_gets = 2
    /\ current_url[driver] # ng_url

(***************************************************************************)
(* The order of the steps of start_transfer, and the bound of the wait for *)
(* the unit (SpecStart).                                                   *)
(***************************************************************************)
\* the row of the page an element denotes, 0 if none
RowOfElem(elem) ==
    LET ks == {k \in 1..Len(sips) : <<"div.sip", sips[k].id>> = elem}
    IN  IF ks = {} THEN 0 ELSE CHOOSE k \in ks : TRUE

\* C26: "Start transfer" is clicked only once the source directory was
\* added; the unit is approved only out of the step that follows the wait,
\* with a row of the name whose UUID was read; and start_transfer returns
\* the UUID of the one row it approved.
C26_FixedOrder ==
    /\ [](st_started => st_dir_added)
    /\ [](approved # {}
             => /\ st_started
                /\ approved = {st_result[2]}
                /\ ~not_uuid(st_result[1])
                /\ RowOfElem(st_result[2]) # 0
                /\ transfer_name_in_dom(sips[RowOfElem(st_result[2])]) = st_name
                /\ transfer_uuid_of(sips[RowOfElem(st_result[2])]) = st_result[1])
    /\ [](st_pc \in {"returned", "lookup", "looked"} => approved # {})
    /\ [][st_started' # st_started => (st_pc = "start" /\ st_dir_added)]_vars
    /\ [][approved' # approved => (st_pc = "approve" /\ st_pc' = "returned")]_vars

\* start_transfer returned after it approved the older one of two rows of
\* the name
C26_Witness ==
    /\ st_pc = "returned"
    /\ Len(sips) = 2
    /\ transfer_name_in_dom(sips[1]) = transfer_name_in_dom(sips[2])
    /\ approved = {<<"div.sip", 2>>}
    /\ st_result[1] = OldUuid

\* C27: a top-level call of wait_for_transfer_to_appear scans the rows at
\* most wait_for_transfer_to_appear_max_waits times: the scan that brings
\* the counter to the maximum ends the call, with (None, None) and the
\* counter reset if it found no UUID.
C27_BoundedWait ==
    /\ [](st_scans <= wait_for_transfer_to_appear_max_waits)
    /\ [](wait_for_transfer_to_appear_waits
             < wait_for_transfer_to_appear_max_waits)
    /\ [][(st_scans' = st_scans + 1
           /\ st_scans' = wait_for_transfer_to_appear_max_waits)
             => /\ st_pc' \in {"approve", "looked"}
                /\ (IF st_pc = "wait" THEN st_result' ELSE lk_result')
                       \in {<<None, None>>, scan_transfers(sips, st_name)}]_vars
    /\ [][(st_scans' = st_scans + 1 /\ st_pc' # st_pc
           /\ (IF st_pc = "wait" THEN st_result' ELSE lk_result')
                  = <<None, None>>)
             => wait_for_transfer_to_appear_waits' = 0]_vars

\* the unit was not listed in 200 scans and the wait gave up
C27_Witness ==
    /\ st_pc = "approve"
    /\ st_scans = wait_for_transfer_to_appear_max_waits
    /\ st_result = <<None, None>>
    /\ wait_for_transfer_to_appear_waits = 0

(***************************************************************************)
(* The iterations of remove_all_transfers and remove_all_ingests           *)
(* (SpecRemove).                                                           *)
(***************************************************************************)
\* the clicks on the "Remove" button of a row
RemoveClicks == {k \in DOMAIN clicks : clicks[k][1] = "Remove"}

\* C28: the clicks of the operation are, in turn, "Remove" on the topmost
\* unit and "Confirm" in its dialog, and the next unit is asked for only
\* once the row is gone, so that no unit gets a second "Remove".
C28_AsStated ==
    /\ \A k \in DOMAIN clicks :
          IF k % 2 = 1 THEN clicks[k][1] = "Remove"
          ELSE clicks[k] = <<"Confirm", clicks[k - 1][2]>>
    /\ \A i, j \in RemoveClicks : i # j => clicks[i][2] # clicks[j][2]

\* C29: when the operation has returned (every removal it confirmed made
\* the row disappear, and no unit was added), it has made as many remove
\* actions as there were units listed.
C29_AsStated ==
    rm_pc = "done"
        => Cardinality(RemoveClicks)
               = Cardinality({clicks[k][2] : k \in RemoveClicks})

(***************************************************************************)
(* One turn of the loop over the rows of parse_tasks_table, on any row: a  *)
(* <tr> with or without a class, with or without a td.stdout and a         *)
(* td.stderror.                                                            *)
(***************************************************************************)
ClassifyRows ==
    [class : {<<>>, <<" ">>, <<"o", "d", "d">>},
     stdout : BOOLEAN,
     stderror : BOOLEAN,
     text : {HeaderText(<<"1">>), CommandRow.text, StdoutRow.text}]

ClassifyDicts ==
    {EmptyDict, process_task_header_row(HeaderRow(<<"1">>), EmptyDict).val}

\* for row_elem in table_elem.find_elements_by_tag_name('tr'):
classify_next_row ==
    /\ cl_pc \in {"idle", "handled"}
    /\ cl_row' \in ClassifyRows
    /\ cl_row_dict' \in ClassifyDicts
    /\ cl_type' = "none"
    /\ cl_handler' = "none"
    /\ cl_out' = Ok(EmptyDict)
    /\ cl_pc' = "row"
    /\ UNCHANGED classify_others

\* row_type = self.get_tasks_row_type(row_elem)
classify_row_type ==
    /\ cl_pc = "row"
    /\ cl_type' = get_tasks_row_type(cl_row)
    /\ cl_pc' = "typed"
    /\ UNCHANGED <<cl_row, cl_row_dict, cl_handler, cl_out>>
    /\ UNCHANGED classify_others

\* the if / elif / else on row_type
classify_dispatch ==
    /\ cl_pc = "typed"
    /\ cl_handler' = row_handler(cl_type)
    /\ cl_out' = row_handler_result(cl_type, cl_row, cl_row_dict)
    /\ cl_pc' = "handled"
    /\ UNCHANGED <<cl_row, cl_row_dict, cl_type>>
    /\ UNCHANGED classify_others

InitClassify ==
    /\ ClassifyIdle
    /\ ExposeIdle
    /\ TreeIdle
    /\ NavigateIdle
    /\ DriverInit
    /\ DomInit
    /\ ScrapeIdle
    /\ NavIdle
    /\ StaleIdle
    /\ JobIdle
    /\ RmIdle
    /\ StartIdle
    /\ WaitIdle
    /\ ParseIdle
    /\ LoginIdle
    /\ WinIdle
    /\ PollIdle

NextClassify ==
    \/ classify_next_row
    \/ classify_row_type
    \/ classify_dispatch

SpecClassify == InitClassify /\ [][NextClassify]_vars

\* the class attribute names a class
HasStylingClass(r) == \E k \in 1..Len(r.class) : r.class[k] \notin Whitespace

\* C30: every row gets exactly one of the four types: header when its class
\* attribute names a class, whatever its cells; else stdout when it has a
\* td.stdout; else stderr when it has a td.stderror; else command; and the
\* loop calls the handler of that type, and no other, on the row.
C30_Precedence ==
    /\ cl_pc \in {"typed", "handled"}
          => /\ cl_type \in {"header", "stdout", "stderr", "command"}
             /\ cl_type = "header" <=> HasStylingClass(cl_row)
             /\ cl_type = "stdout" <=> (~HasStylingClass(cl_row) /\ cl_row.stdout)
             /\ cl_type = "stderr"
                   <=> (/\ ~HasStylingClass(cl_row)
                        /\ ~cl_row.stdout
                        /\ cl_row.stderror)
             /\ cl_type = "command"
                   <=> (/\ ~HasStylingClass(cl_row)
                        /\ ~cl_row.stdout
                        /\ ~cl_row.stderror)
    /\ cl_pc = "handled"
          => /\ cl_handler = "process_task_" \o cl_type \o "_row"
             /\ cl_out = (CASE cl_type = "header" ->
                                  process_task_header_row(cl_row, EmptyDict)
                            [] cl_type = "stdout" ->
                                  process_task_stdout_row(cl_row, cl_row_dict)
                            [] cl_type = "stderr" ->
                                  process_task_stderr_row(cl_row, cl_row_dict)
                            [] cl_type = "command" ->
                                  process_task_command_row(cl_row, cl_row_dict))

\* a row with both cells and no class went to the handler of stdout
C30_Witness ==
    /\ cl_pc = "handled"
    /\ cl_row.class = <<" ">>
    /\ cl_row.stdout
    /\ cl_row.stderror
    /\ cl_handler = "process_task_stdout_row"

(***************************************************************************)
(* The records of the scraper and the groups of rows they come from        *)
(* (SpecScrape).                                                           *)
(***************************************************************************)
\* the rows of type t of the group g
RowsOfType(g, t) == {j \in 1..Len(g) : get_tasks_row_type(g[j]) = t}

\* the record rec holds the fields of the rows of the group g and no other
\* field: the pairs of its header row, and a command, arguments, stdout or
\* stderr that is read off a row of that type of g
FromGroup(rec, g) ==
    /\ DOMAIN rec = GroupKeys(g)
    /\ rec[k_file_uuid] = UuidOfRow(g[1])
    /\ k_stdout \in DOMAIN rec
          => \E j \in RowsOfType(g, "stdout") : rec[k_stdout] = strip(g[j].text)
    /\ k_stderr \in DOMAIN rec
          => \E j \in RowsOfType(g, "stderr") : rec[k_stderr] = strip(g[j].text)
    /\ k_command \in DOMAIN rec
          => \E j \in RowsOfType(g, "command") :
                LET c == process_task_command_row(g[j], EmptyDict).val
                IN  /\ rec[k_command] = c[k_command]
                    /\ rec[k_arguments] = c[k_arguments]

\* C31: every record of the mapping is the record of one group of rows of
\* one page, a header row and the rows up to the next header row: it holds
\* the fields of the rows of that group and no field of a row of another
\* group.
C31_GroupIsolation ==
    \A u \in DOMAIN table_dict.tasks :
       \E p \in 1..Len(pages) : \E j \in HeaderIdx(pages[p]) :
          /\ UuidOfRow(pages[p][j]) = u
          /\ FromGroup(table_dict.tasks[u], GroupRows(pages[p], j))

\* a group with a stdout row was followed by a group without one, whose
\* record has no stdout
C31_Witness ==
    /\ pt_pc = "done"
    /\ pages = <<<<HeaderRow(<<"1">>), StdoutRow, HeaderRow(<<"2">>)>>>>
    /\ k_stdout \in DOMAIN table_dict.tasks[<<"1">>]
    /\ k_stdout \notin DOMAIN table_dict.tasks[<<"2">>]

\* C36: on a table without a header row (no row at all, or rows none of
\* which is a header row) parse_tasks_table adds no record and returns the
\* mapping, without raising.
C36_AsStated ==
    (Finished /\ Len(pages) = 1 /\ HeaderIdx(pages[1]) = {})
        => (pt_pc = "done" /\ table_dict.tasks = EmptyDict)

\* the browser of the harness, the one that setUp opened and that was active
\* before the scrape
HarnessDriver == all_drivers[1]

\* the task browsers, opened by parse_tasks_table, that are open
OpenTaskDrivers == open_drivers \ {HarnessDriver}

\* C33: when parse_tasks_table (and so parse_job) has returned, self.driver
\* is the open browser that was active before the call, not a task browser
\* that was opened and closed for the scrape.
C33_AsStated ==
    pt_pc = "done" => (driver = HarnessDriver /\ driver \in open_drivers)

\* C34: during the scrape at most one task browser is open at any time, the
\* browser of a page being closed before the browser of the next page is
\* opened, and no task browser is open when parse_tasks_table has returned.
C34_OneTaskDriver ==
    /\ Cardinality(OpenTaskDrivers) <= 1
    /\ pt_pc = "call" => OpenTaskDrivers = {}
    /\ pt_pc = "done" => OpenTaskDrivers = {}

\* the browser of the second page is open while its rows are read, the
\* browser of the first page having been closed
C34_Witness ==
    /\ pt_pc = "rows"
    /\ tasks_url = 2
    /\ row_i = 2
    /\ Len(all_drivers) = 3
    /\ OpenTaskDrivers = {3}

\* C32: get_mets goes past wait_for_new_window only when the window that the
\* click on the METS file asked for has opened: the handles are read, the
\* document is captured and get_mets ends only after that window exists.
C32_AsStated ==
    gm_pc \in {"handles", "read", "returned", "raised"} => window_requested = 0

\* C35: when a top-level call of wait_for_transfer_to_appear has ended, in
\* start_transfer or in the lookup of the test, with a UUID as well as with
\* (None, None), wait_for_transfer_to_appear_waits is 0, and so the next
\* top-level call starts with the full budget of scans.
C35_AsStated ==
    /\ st_pc \in {"approve", "looked"} => wait_for_transfer_to_appear_waits = 0
    /\ (st_pc = "lookup" /\ st_scans = 0)
          => wait_for_transfer_to_appear_waits = 0

====
